---- MODULE Spec2Model ----
(***************************************************************************)
(* Verification model of the MSF document engine of                        *)
(* jmassengille/deterministic-extraction (web frontend services):          *)
(*   - Identifier Service   (uuidGenerator.ts)                             *)
(*   - Template Engine      (templateExtractor.ts)                         *)
(*   - Line Indexer         (xmlLineIndex.js)                              *)
(*   - Parser / Serializer  (msfParser.ts, msfSerializer.ts)               *)
(* Strings are sequences of one-character strings.  Each component has its *)
(* own specification; the variables of the other components stay at their  *)
(* initial value under it.                                                 *)
(***************************************************************************)
EXTENDS Integers, Sequences, FiniteSets, TLC

VARIABLES
    drawn,        \* number of values taken from crypto.randomUUID() so far
    candidate,    \* Identifier Service: the string handed to isValidMOXUUID
    origin,       \* Identifier Service: where candidate came from
    edits,        \* Identifier Service: edits made to candidate by the caller
    verdict,      \* Identifier Service: last result of isValidMOXUUID
    xmlString,    \* Line Indexer: the document text, a sequence of tokens
    pieces,       \* Line Indexer: the number of pieces the text was typed in
    functionIndex,\* Line Indexer: the index built from xmlString
    phase,        \* Line Indexer: "editing" | "indexed"
    query,        \* Line Indexer: the line number last looked up
    found,        \* Line Indexer: last result of findFunctionByLineNumber
    valid,        \* Line Indexer: last result of isValidLineNumber
    searchTerm,   \* Line Indexer: the term of the last searchFunctions call
    filtered,     \* Line Indexer: what the last searchFunctions call returned
    source,       \* Template Engine: a function entity of the loaded document
    template,     \* Template Engine: the template in hand, or NULL
    created,      \* Template Engine: the createFunctionFromTemplate calls made
    looked,       \* Template Engine: the last getTemplate call, or NULL
    xmlIn,        \* Round trip: the document text handed to the parser
    tree,         \* Round trip: the tree in the editing session, or NULL
    treeEdits,    \* Round trip: the number of edits made to tree
    xmlOut,       \* Round trip: serializeMSFToXML(tree)
    reparsed,     \* Round trip: parseMSFXML(xmlOut), or NULL
    xmlOut2,      \* Round trip: serializeMSFToXML(reparsed)
    pageMappings, \* Page Mapper: the Map, as its entries in insertion order
    calls,        \* Page Mapper: the calls made on the store, in order
    lookup,       \* Page Mapper: the last getPageMapping call and its result
    localStorage, \* Page Mapper: the storage surface, key -> stored string
    persisted,    \* Page Mapper: per path, what was last persisted, if any
    outcome,      \* Page Mapper: how the last persistence call ended
    estimate,     \* Page Mapper: the last estimatePageNumber call
    document,     \* Editor Store: the loaded tree, or NULL
    isDirty,      \* Editor Store: the dirty flag
    selection,    \* Editor Store: what is selected
    lastOp,       \* Editor Store: the last call made on the store
    storeOps,     \* Editor Store: the number of calls made
    heap,         \* Object identity: the objects and arrays, by address
    fnRef,        \* Object identity: the address of the function at hand, or 0
    tmplRef,      \* Object identity: the address of the template at hand, or 0
    templates,    \* Object identity: the addresses of all templates handed out
    lastHeapOp,   \* Object identity: the last call or edit
    heapOps       \* Object identity: the number of calls and edits made

uuidVars == <<candidate, origin, edits, verdict>>

lineVars == <<xmlString, pieces, functionIndex, phase, query, found, valid, searchTerm, filtered>>

tmplVars == <<source, template, created, looked>>

wireVars == <<xmlIn, tree, treeEdits, xmlOut, reparsed, xmlOut2>>

mapVars == <<pageMappings, calls, lookup>>

persistVars == <<localStorage, persisted, outcome>>

pageVars == <<mapVars, persistVars, estimate>>

storeVars == <<document, isDirty, selection, lastOp, storeOps>>

heapVars == <<heap, fnRef, tmplRef, templates, lastHeapOp, heapOps>>

vars == <<drawn, uuidVars, lineVars, tmplVars, wireVars, pageVars, storeVars, heapVars>>

\* JavaScript's null where an object is expected, and where a string is.
NULL == [null |-> TRUE]

NullString == <<"(null)">>

(***************************************************************************)
(* Bounds of the model.                                                    *)
(***************************************************************************)
MaxDraws == 2
MaxEdits == 1
MaxPieces == 5
MaxRanges == 2
MaxSpecs == 2
MaxCreated == 2
MaxSequence == 2
MaxDocFunctions == 2
MaxTreeEdits == 1
MaxCalls == 3
MaxStoreOps == 4
MaxMixedCalls == 2
MaxHeapOps == 4
MaxPage == 2
MaxSequenceIndex == 4
MaxTotalFunctions == 4
MaxTotalPages == 5

(***************************************************************************)
(* Characters and strings.                                                 *)
(***************************************************************************)
Str(s) == s

LF == "\n"

CR == "\r"

WhiteSpace == {" ", "\t", CR, LF}

LowerLetters == <<"a", "b", "c", "d", "e", "f", "g", "h", "i", "j", "k", "l", "m",
                  "n", "o", "p", "q", "r", "s", "t", "u", "v", "w", "x", "y", "z">>

UpperLetters == <<"A", "B", "C", "D", "E", "F", "G", "H", "I", "J", "K", "L", "M",
                  "N", "O", "P", "Q", "R", "S", "T", "U", "V", "W", "X", "Y", "Z">>

IndexOf(seq, c) == CHOOSE i \in 1..Len(seq) : seq[i] = c

\* String.prototype.toUpperCase: every lower-case letter becomes its
\* upper-case letter, every other character is kept.
UpperCaseOf == [c \in {LowerLetters[i] : i \in 1..Len(LowerLetters)} |->
                   UpperLetters[IndexOf(LowerLetters, c)]]

toUpperCaseChar(c) == IF c \in DOMAIN UpperCaseOf THEN UpperCaseOf[c] ELSE c

toUpperCase(s) == [i \in 1..Len(s) |-> toUpperCaseChar(s[i])]

\* String.prototype.toLowerCase.
LowerCaseOf == [c \in {UpperLetters[i] : i \in 1..Len(UpperLetters)} |->
                   LowerLetters[IndexOf(UpperLetters, c)]]

toLowerCaseChar(c) == IF c \in DOMAIN LowerCaseOf THEN LowerCaseOf[c] ELSE c

toLowerCase(s) == [i \in 1..Len(s) |-> toLowerCaseChar(s[i])]

(***************************************************************************)
(* Identifier Service (uuidGenerator.ts).                                  *)
(***************************************************************************)
HexLower == <<"0", "1", "2", "3", "4", "5", "6", "7", "8", "9",
              "a", "b", "c", "d", "e", "f">>

DecimalDigits == {"0", "1", "2", "3", "4", "5", "6", "7", "8", "9"}

UpperHexDigits == DecimalDigits \cup {"A", "B", "C", "D", "E", "F"}

\* The n-th value of the platform's crypto.randomUUID(): a version 4 UUID,
\* 8-4-4-4-12 lower-case hexadecimal digits joined by hyphens.  The source
\* is modelled as a stream of 256 values that never repeats one (its first
\* two digits number the draw); the other digits vary with n over 0-9a-f.
RandomNibble(n, i) ==
    IF i = 1 THEN (n \div 16) % 16
    ELSE IF i = 2 THEN n % 16
    ELSE IF i = 13 THEN 4
    ELSE IF i = 17 THEN 8 + (n % 4)
    ELSE (n * (2 * i + 1) + 5 * i) % 16

RandomHex(n, from, to) == [i \in 1..(to - from + 1) |-> HexLower[RandomNibble(n, from + i - 1) + 1]]

RandomUUIDStream ==
    [n \in 0..255 |->
        RandomHex(n, 1, 8) \o <<"-">> \o RandomHex(n, 9, 12) \o <<"-">> \o
        RandomHex(n, 13, 16) \o <<"-">> \o RandomHex(n, 17, 20) \o <<"-">> \o
        RandomHex(n, 21, 32)]

crypto_randomUUID(n) == RandomUUIDStream[n]

\* generateMOXUUID(): `{${crypto.randomUUID().toUpperCase()}}`; n is the
\* number of the draw it takes from the random source.
generateMOXUUID_lowercase(n) == <<"{">> \o crypto_randomUUID(n) \o <<"}">>

generateMOXUUID(n) == <<"{">> \o toUpperCase(crypto_randomUUID(n)) \o <<"}">>

\* The regular expression of isValidMOXUUID,
\*   /^\{[0-9A-F]{8}-[0-9A-F]{4}-[0-9A-F]{4}-[0-9A-F]{4}-[0-9A-F]{12}\}$/
\* as its sequence of atoms: a character class and a repetition count.
Atom(class, count) == [class |-> class, count |-> count]

MOXPattern ==
    << Atom({"{"}, 1),
       Atom(UpperHexDigits, 8), Atom({"-"}, 1),
       Atom(UpperHexDigits, 4), Atom({"-"}, 1),
       Atom(UpperHexDigits, 4), Atom({"-"}, 1),
       Atom(UpperHexDigits, 4), Atom({"-"}, 1),
       Atom(UpperHexDigits, 12),
       Atom({"}"}, 1) >>

\* Matching the atoms from atom k on against s from position pos on: the
\* position after the match, or 0 when the atoms do not match there.
RECURSIVE MatchAtoms(_, _, _, _)
MatchAtoms(pattern, k, s, pos) ==
    IF k > Len(pattern) THEN pos
    ELSE LET a == pattern[k]
             last == pos + a.count - 1
         IN  IF last <= Len(s) /\ \A i \in pos..last : s[i] \in a.class
             THEN MatchAtoms(pattern, k + 1, s, last + 1)
             ELSE 0

\* RegExp.prototype.test for a pattern anchored by ^ and $ (no flags): the
\* match starts at the first character and ends after the last one.
RegExpTestAnchored(pattern, s) == MatchAtoms(pattern, 1, s, 1) = Len(s) + 1

\* The same pattern without the $ anchor.
RegExpTestPrefix(pattern, s) == MatchAtoms(pattern, 1, s, 1) > 0

isValidMOXUUID_unanchored(uuid) == RegExpTestPrefix(MOXPattern, uuid)

isValidMOXUUID(uuid) == RegExpTestAnchored(MOXPattern, uuid)

generateNullUUID == Str(<<"{", "0", "0", "0", "0", "0", "0", "0", "0", "-",
                          "0", "0", "0", "0", "-", "0", "0", "0", "0", "-",
                          "0", "0", "0", "0", "-",
                          "0", "0", "0", "0", "0", "0", "0", "0", "0", "0", "0", "0",
                          "}">>)

\* Characters a caller may put into a string it hands to isValidMOXUUID.
TypedChars == {"a", "0", "-"}

RemoveAt(s, i) == SubSeq(s, 1, i - 1) \o SubSeq(s, i + 1, Len(s))

InsertAt(s, i, c) == SubSeq(s, 1, i - 1) \o <<c>> \o SubSeq(s, i, Len(s))

\* The Identifier Service touches no state of the other components.
UuidFrame == UNCHANGED <<lineVars, tmplVars, wireVars, pageVars, storeVars, heapVars>>

UuidInit ==
    /\ candidate = <<>>
    /\ origin = "typed"
    /\ edits = 0
    /\ verdict = "none"

\* A call of generateMOXUUID(); the caller keeps the result.
GenerateMOXUUID ==
    /\ drawn < MaxDraws
    /\ candidate' = generateMOXUUID(drawn)
    /\ drawn' = drawn + 1
    /\ origin' = "generate"
    /\ edits' = 0
    /\ verdict' = "none"
    /\ UuidFrame

\* A call of generateNullUUID().
GenerateNullUUID ==
    /\ candidate' = generateNullUUID
    /\ origin' = "null"
    /\ edits' = 0
    /\ verdict' = "none"
    /\ UNCHANGED drawn
    /\ UuidFrame

\* The caller builds another string out of the one it holds: it drops,
\* inserts or replaces one character.
DropChar ==
    /\ edits < MaxEdits
    /\ \E i \in 1..Len(candidate) : candidate' = RemoveAt(candidate, i)
    /\ edits' = edits + 1
    /\ verdict' = "none"
    /\ UNCHANGED <<drawn, origin>>
    /\ UuidFrame

InsertChar ==
    /\ edits < MaxEdits
    /\ \E i \in 1..(Len(candidate) + 1), c \in TypedChars :
           candidate' = InsertAt(candidate, i, c)
    /\ edits' = edits + 1
    /\ verdict' = "none"
    /\ UNCHANGED <<drawn, origin>>
    /\ UuidFrame

ReplaceChar ==
    /\ edits < MaxEdits
    /\ \E i \in 1..Len(candidate), c \in TypedChars :
           /\ c # candidate[i]
           /\ candidate' = [candidate EXCEPT ![i] = c]
    /\ edits' = edits + 1
    /\ verdict' = "none"
    /\ UNCHANGED <<drawn, origin>>
    /\ UuidFrame

\* The caller lower-cases the string it holds.
LowerCaseAll ==
    /\ edits < MaxEdits
    /\ candidate' = toLowerCase(candidate)
    /\ candidate' # candidate
    /\ edits' = edits + 1
    /\ verdict' = "none"
    /\ UNCHANGED <<drawn, origin>>
    /\ UuidFrame

\* A call of isValidMOXUUID(candidate).
IsValidMOXUUID ==
    /\ verdict = "none"
    /\ verdict' = IF isValidMOXUUID(candidate) THEN "valid" ELSE "invalid"
    /\ UNCHANGED <<drawn, candidate, origin, edits>>
    /\ UuidFrame

UuidNext ==
    \/ GenerateMOXUUID
    \/ GenerateNullUUID
    \/ DropChar
    \/ InsertChar
    \/ ReplaceChar
    \/ LowerCaseAll
    \/ IsValidMOXUUID


(***************************************************************************)
(* Template Engine (templateExtractor.ts).  A list is a sequence; the      *)
(* callback index idx of Array.prototype.map is the position minus one.    *)
(***************************************************************************)
extractSpecificationTemplate(spec) ==
    [calinterval |-> spec.calinterval,
     Specialcal |-> spec.Specialcal,
     AssetNum |-> spec.AssetNum,
     spectype |-> spec.spectype,
     unitofmeasure |-> spec.unitofmeasure,
     unitsymbol |-> spec.unitsymbol,
     fullscale |-> spec.fullscale,
     iv_pct |-> spec.iv_pct,
     iv_pct_hi |-> spec.iv_pct_hi,
     iv_ppm |-> spec.iv_ppm,
     fs_pct |-> spec.fs_pct,
     fs_pct_hi |-> spec.fs_pct_hi,
     fs_ppm |-> spec.fs_ppm,
     floor |-> spec.floor,
     floor_hi |-> spec.floor_hi,
     db |-> spec.db,
     dbtype |-> spec.dbtype,
     calcdesc |-> spec.calcdesc,
     calcstring |-> spec.calcstring,
     operand |-> spec.operand]

extractParameterTemplate(param) ==
    [lowerlimit |-> param.lowerlimit,
     upperlimit |-> param.upperlimit,
     unitofmeasure |-> param.unitofmeasure,
     unitsymbol |-> param.unitsymbol,
     isbipolar |-> param.isbipolar,
     paramname |-> param.paramname]

\* A range template that also keeps the range's own fields ({...range, ...}).
extractRangeTemplate_spread(range) ==
    [rangename |-> range.rangename,
     rangeid |-> range.rangeid,
     properties |-> range.properties,
     autoassign |-> range.autoassign,
     parameter |-> extractParameterTemplate(range.parameter),
     specifications |-> [j \in 1..Len(range.specifications) |->
                            extractSpecificationTemplate(range.specifications[j])],
     pui |-> range.pui,
     dui |-> range.dui,
     sequence |-> range.sequence,
     noteidlist |-> range.noteidlist,
     verified |-> range.verified,
     review |-> range.review]

extractRangeTemplate(range) ==
    [rangename |-> range.rangename,
     rangeid |-> range.rangeid,
     properties |-> range.properties,
     autoassign |-> range.autoassign,
     parameter |-> extractParameterTemplate(range.parameter),
     specifications |-> [j \in 1..Len(range.specifications) |->
                            extractSpecificationTemplate(range.specifications[j])]]

extractFunctionTemplate(func) ==
    [functionname |-> func.functionname,
     modifier |-> func.modifier,
     properties |-> func.properties,
     format |-> func.format,
     isoutput |-> func.isoutput,
     ranges |-> [i \in 1..Len(func.ranges) |-> extractRangeTemplate(func.ranges[i])]]

\* The create functions take, besides the arguments of the code, the number
\* n of the first draw their generateMOXUUID() calls take from the random
\* source; the calls are made in the order the object literal lists them.
\* One identifier for pui and dui.
createSpecificationFromTemplate_sameId(tmpl, sequence, n) ==
    [pui |-> generateMOXUUID(n),
     dui |-> generateMOXUUID(n),
     sequence |-> sequence,
     calinterval |-> tmpl.calinterval,
     Specialcal |-> tmpl.Specialcal,
     AssetNum |-> tmpl.AssetNum,
     spectype |-> tmpl.spectype,
     unitofmeasure |-> tmpl.unitofmeasure,
     unitsymbol |-> tmpl.unitsymbol,
     fullscale |-> tmpl.fullscale,
     iv_pct |-> tmpl.iv_pct,
     iv_pct_hi |-> tmpl.iv_pct_hi,
     iv_ppm |-> tmpl.iv_ppm,
     fs_pct |-> tmpl.fs_pct,
     fs_pct_hi |-> tmpl.fs_pct_hi,
     fs_ppm |-> tmpl.fs_ppm,
     floor |-> tmpl.floor,
     floor_hi |-> tmpl.floor_hi,
     db |-> tmpl.db,
     dbtype |-> tmpl.dbtype,
     calcdesc |-> tmpl.calcdesc,
     calcstring |-> tmpl.calcstring,
     operand |-> tmpl.operand]

createSpecificationFromTemplate(tmpl, sequence, n) ==
    [pui |-> generateMOXUUID(n),
     dui |-> generateMOXUUID(n + 1),
     sequence |-> sequence,
     calinterval |-> tmpl.calinterval,
     Specialcal |-> tmpl.Specialcal,
     AssetNum |-> tmpl.AssetNum,
     spectype |-> tmpl.spectype,
     unitofmeasure |-> tmpl.unitofmeasure,
     unitsymbol |-> tmpl.unitsymbol,
     fullscale |-> tmpl.fullscale,
     iv_pct |-> tmpl.iv_pct,
     iv_pct_hi |-> tmpl.iv_pct_hi,
     iv_ppm |-> tmpl.iv_ppm,
     fs_pct |-> tmpl.fs_pct,
     fs_pct_hi |-> tmpl.fs_pct_hi,
     fs_ppm |-> tmpl.fs_ppm,
     floor |-> tmpl.floor,
     floor_hi |-> tmpl.floor_hi,
     db |-> tmpl.db,
     dbtype |-> tmpl.dbtype,
     calcdesc |-> tmpl.calcdesc,
     calcstring |-> tmpl.calcstring,
     operand |-> tmpl.operand]

\* A parameter that takes the default of isbipolar, not the template's.
createParameterFromTemplate_unipolar(tmpl, n) ==
    [pui |-> generateMOXUUID(n),
     dui |-> generateMOXUUID(n + 1),
     sequence |-> 0,
     lowerlimit |-> tmpl.lowerlimit,
     upperlimit |-> tmpl.upperlimit,
     unitofmeasure |-> tmpl.unitofmeasure,
     unitsymbol |-> tmpl.unitsymbol,
     isbipolar |-> FALSE,
     noteidlist |-> <<>>,
     paramname |-> tmpl.paramname,
     verified |-> FALSE,
     review |-> FALSE]

createParameterFromTemplate(tmpl, n) ==
    [pui |-> generateMOXUUID(n),
     dui |-> generateMOXUUID(n + 1),
     sequence |-> 0,
     lowerlimit |-> tmpl.lowerlimit,
     upperlimit |-> tmpl.upperlimit,
     unitofmeasure |-> tmpl.unitofmeasure,
     unitsymbol |-> tmpl.unitsymbol,
     isbipolar |-> tmpl.isbipolar,
     noteidlist |-> <<>>,
     paramname |-> tmpl.paramname,
     verified |-> FALSE,
     review |-> FALSE]

createRangeFromTemplate(tmpl, sequence, n) ==
    [pui |-> generateMOXUUID(n),
     dui |-> generateMOXUUID(n + 1),
     sequence |-> sequence,
     rangename |-> tmpl.rangename,
     rangeid |-> tmpl.rangeid,
     properties |-> tmpl.properties,
     autoassign |-> tmpl.autoassign,
     noteidlist |-> <<>>,
     verified |-> FALSE,
     review |-> FALSE,
     parameter |-> createParameterFromTemplate(tmpl.parameter, n + 2),
     specifications |-> [j \in 1..Len(tmpl.specifications) |->
                            createSpecificationFromTemplate(
                                tmpl.specifications[j], j - 1, n + 4 + 2 * (j - 1))]]

\* The number of generateMOXUUID() calls of createRangeFromTemplate, of the
\* first k range templates of a list, and of createFunctionFromTemplate.
RangeDraws(tmpl) == 4 + 2 * Len(tmpl.specifications)

RECURSIVE RangesDraws(_, _)
RangesDraws(ranges, k) ==
    IF k = 0 THEN 0 ELSE RangesDraws(ranges, k - 1) + RangeDraws(ranges[k])

FunctionDraws(tmpl) == 2 + RangesDraws(tmpl.ranges, Len(tmpl.ranges))

\* createFunctionFromTemplate with its ranges numbered from firstIdx on.
createFunctionFromTemplate_variant(tmpl, sequence, n, firstIdx) ==
    [pui |-> generateMOXUUID(n),
     dui |-> generateMOXUUID(n + 1),
     sequence |-> sequence,
     functionname |-> tmpl.functionname,
     modifier |-> tmpl.modifier,
     properties |-> tmpl.properties,
     format |-> tmpl.format,
     isoutput |-> tmpl.isoutput,
     noteidlist |-> <<>>,
     verified |-> FALSE,
     review |-> FALSE,
     ranges |-> [i \in 1..Len(tmpl.ranges) |->
                    createRangeFromTemplate(
                        tmpl.ranges[i], firstIdx + i - 1,
                        n + 2 + RangesDraws(tmpl.ranges, i - 1))],
     _uiExpanded |-> FALSE,
     _uiStatus |-> <<"u", "n", "r", "e", "v", "i", "e", "w", "e", "d">>]

\* Identifiers that depend on the place in the template only, not on the
\* state of the random source.
createFunctionFromTemplate_positional(tmpl, sequence, n) ==
    createFunctionFromTemplate_variant(tmpl, sequence, 0, 0)

\* Ranges numbered from 1.
createFunctionFromTemplate_oneBased(tmpl, sequence, n) ==
    createFunctionFromTemplate_variant(tmpl, sequence, n, 1)

createFunctionFromTemplate(tmpl, sequence, n) ==
    [pui |-> generateMOXUUID(n),
     dui |-> generateMOXUUID(n + 1),
     sequence |-> sequence,
     functionname |-> tmpl.functionname,
     modifier |-> tmpl.modifier,
     properties |-> tmpl.properties,
     format |-> tmpl.format,
     isoutput |-> tmpl.isoutput,
     noteidlist |-> <<>>,
     verified |-> FALSE,
     review |-> FALSE,
     ranges |-> [i \in 1..Len(tmpl.ranges) |->
                    createRangeFromTemplate(
                        tmpl.ranges[i], i - 1,
                        n + 2 + RangesDraws(tmpl.ranges, i - 1))],
     _uiExpanded |-> FALSE,
     _uiStatus |-> <<"u", "n", "r", "e", "v", "i", "e", "w", "e", "d">>]

(***************************************************************************)
(* Function entities of a loaded document (MSFFunctionNormalized), as the  *)
(* tests build them: createTestFunction with other shapes and values.      *)
(***************************************************************************)
\* The k-th identifier of the loaded document.
DocumentId(k) == generateMOXUUID(200 + k)

Digit(i) == HexLower[i + 1]

SampleSpecification(i, j, k) ==
    [pui |-> DocumentId(k),
     dui |-> DocumentId(k + 1),
     sequence |-> j - 1,
     calinterval |-> 365 + 10 * i + j,
     Specialcal |-> <<>>,
     AssetNum |-> <<>>,
     spectype |-> <<"A", "c", "c">>,
     unitofmeasure |-> <<"v", "o", "l", "t">>,
     unitsymbol |-> <<"V">>,
     fullscale |-> 0,
     iv_pct |-> j,
     iv_pct_hi |-> 0,
     iv_ppm |-> 0,
     fs_pct |-> 0,
     fs_pct_hi |-> 0,
     fs_ppm |-> 0,
     floor |-> 0,
     floor_hi |-> 0,
     db |-> 0,
     dbtype |-> 0,
     calcdesc |-> <<>>,
     calcstring |-> <<>>,
     operand |-> <<"P", "M">>]

SampleParameter(i, k) ==
    [pui |-> DocumentId(k),
     dui |-> DocumentId(k + 1),
     sequence |-> 0,
     lowerlimit |-> 0,
     upperlimit |-> 100 * i,
     unitofmeasure |-> <<"v", "o", "l", "t">>,
     unitsymbol |-> <<"V">>,
     isbipolar |-> TRUE,
     noteidlist |-> <<>>,
     paramname |-> <<>>,
     verified |-> FALSE,
     review |-> (i = 1)]

\* The i-th range, with the given number of specifications; k is the number
\* of its first identifier.
SampleRange(i, specCount, k) ==
    [pui |-> DocumentId(k),
     dui |-> DocumentId(k + 1),
     sequence |-> i - 1,
     rangename |-> <<"R", Digit(i)>>,
     rangeid |-> <<>>,
     properties |-> <<>>,
     autoassign |-> TRUE,
     noteidlist |-> <<"n">>,
     verified |-> TRUE,
     review |-> FALSE,
     parameter |-> SampleParameter(i, k + 2),
     specifications |-> [j \in 1..specCount |->
                            SampleSpecification(i, j, k + 4 + 2 * (j - 1))]]

RECURSIVE ShapeIds(_, _)
ShapeIds(shape, k) == IF k = 0 THEN 0 ELSE ShapeIds(shape, k - 1) + 4 + 2 * shape[k]

\* The number of identifiers of a function of the given shape.
ShapeIdCount(shape) == 2 + ShapeIds(shape, Len(shape))

\* A function whose i-th range has shape[i] specifications; k is the number
\* of its first identifier.
SampleFunctionAt(modifier, shape, k, sequence) ==
    [pui |-> DocumentId(k),
     dui |-> DocumentId(k + 1),
     sequence |-> sequence,
     functionname |-> <<"T", "e", "s", "t">>,
     modifier |-> modifier,
     properties |-> <<>>,
     format |-> <<>>,
     isoutput |-> FALSE,
     noteidlist |-> <<>>,
     verified |-> TRUE,
     review |-> TRUE,
     ranges |-> [i \in 1..Len(shape) |->
                    SampleRange(i, shape[i], k + 2 + ShapeIds(shape, i - 1))],
     _uiExpanded |-> TRUE,
     _uiStatus |-> <<"o", "k">>]

SampleFunction(modifier, shape) == SampleFunctionAt(modifier, shape, 0, 0)

Shapes == UNION {[1..k -> 0..MaxSpecs] : k \in 0..MaxRanges}

SampleModifiers == {NullString, <<>>, <<"R", "M", "S">>}

(***************************************************************************)
(* The built-in templates (PREDEFINED_TEMPLATES).  A number with a         *)
(* fraction is held in tenths where the library has one (iv_pct: 0.1 is    *)
(* 1): the Template Engine copies numbers and never computes with them.    *)
(***************************************************************************)
PredefinedTemplate(functionname, upperlimit, unitofmeasure, unitsymbol, isbipolar) ==
    [functionname |-> functionname,
     modifier |-> NullString,
     properties |-> <<>>,
     format |-> <<>>,
     isoutput |-> FALSE,
     ranges |-> <<
        [rangename |-> <<"D", "e", "f", "a", "u", "l", "t", " ", "R", "a", "n", "g", "e">>,
         rangeid |-> <<>>,
         properties |-> <<>>,
         autoassign |-> TRUE,
         parameter |-> [lowerlimit |-> 0,
                        upperlimit |-> upperlimit,
                        unitofmeasure |-> unitofmeasure,
                        unitsymbol |-> unitsymbol,
                        isbipolar |-> isbipolar,
                        paramname |-> <<>>],
         specifications |-> <<
            [calinterval |-> 365,
             Specialcal |-> <<>>,
             AssetNum |-> <<>>,
             spectype |-> <<"A", "c", "c", "u", "r", "a", "c", "y">>,
             unitofmeasure |-> unitofmeasure,
             unitsymbol |-> unitsymbol,
             fullscale |-> 0,
             iv_pct |-> 1,
             iv_pct_hi |-> 0,
             iv_ppm |-> 0,
             fs_pct |-> 0,
             fs_pct_hi |-> 0,
             fs_ppm |-> 0,
             floor |-> 0,
             floor_hi |-> 0,
             db |-> 0,
             dbtype |-> 0,
             calcdesc |-> <<>>,
             calcstring |-> <<>>,
             operand |-> <<"P", "l", "u", "s", "M", "i", "n", "u", "s">>] >>] >>]

\* The keys in the order of the object literal.
TemplateKeys == <<"voltage-dc", "voltage-ac", "resistance", "current-dc">>

\* "Ohm" stands for the one character of the ohm sign.
PREDEFINED_TEMPLATES ==
    [key \in {TemplateKeys[i] : i \in 1..Len(TemplateKeys)} |->
        CASE key = "voltage-dc" ->
                 PredefinedTemplate(<<"V", "o", "l", "t", "a", "g", "e", ",", " ", "D", "C">>, 100, <<"v", "o", "l", "t">>, <<"V">>, TRUE)
          [] key = "voltage-ac" ->
                 PredefinedTemplate(<<"V", "o", "l", "t", "a", "g", "e", ",", " ", "A", "C">>, 100, <<"v", "o", "l", "t">>, <<"V">>, FALSE)
          [] key = "resistance" ->
                 PredefinedTemplate(<<"R", "e", "s", "i", "s", "t", "a", "n", "c", "e">>, 1000, <<"o", "h", "m">>, <<"Ohm">>, FALSE)
          [] key = "current-dc" ->
                 PredefinedTemplate(<<"C", "u", "r", "r", "e", "n", "t", ",", " ", "D", "C">>, 10, <<"a", "m", "p", "e", "r", "e">>, <<"A">>, TRUE)]

\* The names every object inherits from Object.prototype: a property read
\* with a key among them finds the inherited member.
ObjectPrototypeKeys ==
    {"constructor", "hasOwnProperty", "isPrototypeOf", "propertyIsEnumerable",
     "toLocaleString", "toString", "valueOf", "__proto__"}

\* PREDEFINED_TEMPLATES[key]: the own property, else the member inherited
\* from Object.prototype (a function, or the prototype object), else NULL
\* for undefined.
PropertyOf(key) ==
    IF key \in DOMAIN PREDEFINED_TEMPLATES THEN PREDEFINED_TEMPLATES[key]
    ELSE IF key \in ObjectPrototypeKeys THEN [inherited |-> key]
    ELSE NULL

\* Object.keys(PREDEFINED_TEMPLATES).
getAvailableTemplates == TemplateKeys

\* PREDEFINED_TEMPLATES[key] || null: every object and function is truthy.
getTemplate(key) == PropertyOf(key)

\* Whether a value returned by getTemplate is a template.
IsTemplate(v) == "ranges" \in DOMAIN v

\* The Template Engine touches no state of the other components.
TmplFrame == UNCHANGED <<uuidVars, lineVars, wireVars, pageVars, storeVars, heapVars>>

TmplInit ==
    /\ source = NULL
    /\ template = NULL
    /\ created = <<>>
    /\ looked = NULL

\* A document is loaded; source is one of its functions.
LoadFunction ==
    /\ source = NULL
    /\ \E m \in SampleModifiers, shape \in Shapes : source' = SampleFunction(m, shape)
    /\ UNCHANGED <<drawn, template, created, looked>>
    /\ TmplFrame

\* The function entities at hand: the document's, and the created ones.
Functions == (IF source = NULL THEN {} ELSE {source}) \cup {created[c].result : c \in 1..Len(created)}

\* A call of extractFunctionTemplate(f).
ExtractFunctionTemplate ==
    /\ \E f \in Functions : template' = extractFunctionTemplate(f)
    /\ UNCHANGED <<drawn, source, created, looked>>
    /\ TmplFrame

\* A call of createFunctionFromTemplate(template, s).
CreateFunctionFromTemplate ==
    /\ template # NULL
    /\ Len(created) < MaxCreated
    /\ \E s \in 0..MaxSequence :
           created' = Append(created, [template |-> template,
                                       sequence |-> s,
                                       result |-> createFunctionFromTemplate(template, s, drawn)])
    /\ drawn' = drawn + FunctionDraws(template)
    /\ UNCHANGED <<source, template, looked>>
    /\ TmplFrame

\* The keys asked for: the four of the library, and other strings.
SampleKeys ==
    {TemplateKeys[i] : i \in 1..Len(TemplateKeys)}
    \cup {"", "nonexistent", "Voltage-DC", "constructor", "toString"}

\* A call of getTemplate(key); a template found becomes the template at
\* hand.
GetTemplate ==
    /\ looked = NULL
    /\ \E key \in SampleKeys :
           /\ looked' = [key |-> key, result |-> getTemplate(key)]
           /\ template' = IF IsTemplate(getTemplate(key)) THEN getTemplate(key) ELSE template
    /\ UNCHANGED <<drawn, source, created>>
    /\ TmplFrame

TmplNext ==
    \/ GetTemplate
    \/ LoadFunction
    \/ ExtractFunctionTemplate
    \/ CreateFunctionFromTemplate


(***************************************************************************)
(* MSF wire format.  A document text is a sequence of tokens: the XML      *)
(* declaration, an opening, closing or self-closing tag (v holds its       *)
(* name), or a run of character data (v holds its characters).             *)
(***************************************************************************)
XmlDecl == [k |-> "decl", v |-> <<>>]

OpenT(name) == [k |-> "open", v |-> <<name>>]

CloseT(name) == [k |-> "close", v |-> <<name>>]

EmptyT(name) == [k |-> "empty", v |-> <<name>>]

TextT(chars) == [k |-> "text", v |-> chars]

NewLine == TextT(<<LF>>)

\* A field of an entity type: its tag, its kind ("text", "opt" for the
\* designated optional text fields, "int", "bool", "one" for a singular
\* child section, "many" for a repeatable child section), the field of the
\* tree that holds it and, for a section, the entity type of the child.
Field(tag, kind) == [tag |-> tag, kind |-> kind, field |-> tag, type |-> "leaf"]

Section(tag, kind, field, type) == [tag |-> tag, kind |-> kind, field |-> field, type |-> type]

\* The canonical field order of each entity type.
Schema ==
    [instrument |->
        << Field("pui", "text"), Field("dui", "text"),
           Field("verified", "bool"), Field("review", "bool"),
           Field("filenotes", "text"), Field("filehistory", "text"),
           Section("header", "one", "header", "header"),
           Section("function", "many", "functions", "function") >>,
     header |->
        << Field("pui", "text"), Field("dui", "text"),
           Field("model", "text"), Field("manufacturer", "text"),
           Field("description", "text"), Field("confidence", "int"),
           Field("confidenceDesc", "text"), Field("specreference", "text"),
           Field("author", "text"), Field("verifiedby", "text"),
           Field("approvedby", "text"), Field("approvedate", "text"),
           Field("save_date", "text"), Field("saved_by", "text"),
           Field("revision", "int"), Field("app_name", "text"),
           Field("app_version", "text"), Field("source_filename", "text"),
           Field("source_date", "text"), Field("lims_widgetcode", "int"),
           Field("lims_equipclass", "int"), Field("noteidlist", "text"),
           Field("isactive", "bool"), Field("verified", "bool"),
           Field("review", "bool"), Field("revisionnotes", "text") >>,
     function |->
        << Field("pui", "text"), Field("dui", "text"), Field("sequence", "int"),
           Field("functionname", "text"), Field("modifier", "opt"),
           Field("properties", "text"), Field("format", "text"),
           Field("isoutput", "bool"), Field("noteidlist", "text"),
           Field("verified", "bool"), Field("review", "bool"),
           Section("range", "many", "ranges", "range") >>,
     range |->
        << Field("pui", "text"), Field("dui", "text"), Field("sequence", "int"),
           Field("rangename", "text"), Field("rangeid", "text"),
           Field("properties", "text"), Field("autoassign", "bool"),
           Field("noteidlist", "text"), Field("verified", "bool"),
           Field("review", "bool"),
           Section("parameter", "one", "parameter", "parameter"),
           Section("specification", "many", "specifications", "specification") >>,
     parameter |->
        << Field("pui", "text"), Field("dui", "text"), Field("sequence", "int"),
           Field("lowerlimit", "int"), Field("upperlimit", "int"),
           Field("unitofmeasure", "text"), Field("unitsymbol", "text"),
           Field("isbipolar", "bool"), Field("noteidlist", "text"),
           Field("paramname", "text"), Field("verified", "bool"),
           Field("review", "bool") >>,
     specification |->
        << Field("pui", "text"), Field("dui", "text"), Field("sequence", "int"),
           Field("calinterval", "int"), Field("Specialcal", "text"),
           Field("AssetNum", "text"), Field("spectype", "text"),
           Field("unitofmeasure", "text"), Field("unitsymbol", "text"),
           Field("fullscale", "int"), Field("iv_pct", "int"),
           Field("iv_pct_hi", "int"), Field("iv_ppm", "int"),
           Field("fs_pct", "int"), Field("fs_pct_hi", "int"),
           Field("fs_ppm", "int"), Field("floor", "int"),
           Field("floor_hi", "int"), Field("db", "int"), Field("dbtype", "int"),
           Field("calcdesc", "text"), Field("calcstring", "text"),
           Field("operand", "text") >>]

\* Decimal numerals.
DigitChars == <<"0", "1", "2", "3", "4", "5", "6", "7", "8", "9">>

RECURSIVE NatToChars(_)
NatToChars(n) ==
    IF n < 10 THEN <<DigitChars[n + 1]>>
    ELSE NatToChars(n \div 10) \o <<DigitChars[(n % 10) + 1]>>

NumberToChars(n) == IF n < 0 THEN <<"-">> \o NatToChars(-n) ELSE NatToChars(n)

DigitValue(c) == (CHOOSE d \in 1..10 : DigitChars[d] = c) - 1

RECURSIVE CharsToNat(_)
CharsToNat(chars) ==
    IF chars = <<>> THEN 0
    ELSE 10 * CharsToNat(SubSeq(chars, 1, Len(chars) - 1)) + DigitValue(chars[Len(chars)])

CharsToNumber(chars) ==
    IF chars # <<>> /\ Head(chars) = "-" THEN -CharsToNat(Tail(chars)) ELSE CharsToNat(chars)

(***************************************************************************)
(* Serializer (msfSerializer.ts).                                          *)
(***************************************************************************)
\* The sentinel encoding of a boolean field.
encodeBoolean_one(b) == IF b THEN <<"1">> ELSE <<"0">>

encodeBoolean(b) == IF b THEN <<"-", "1">> ELSE <<"0">>

\* A leaf element: an explicit open/close pair, also around no characters.
LeafElement(tag, chars) ==
    IF chars = <<>> THEN <<OpenT(tag), CloseT(tag), NewLine>>
    ELSE <<OpenT(tag), TextT(chars), CloseT(tag), NewLine>>

\* An absent value written as a self-closing element.
serializeLeaf_selfClosing(f, value) ==
    IF f.kind = "bool" THEN LeafElement(f.tag, encodeBoolean(value))
    ELSE IF f.kind = "int" THEN LeafElement(f.tag, NumberToChars(value))
    ELSE IF f.kind = "opt" /\ value = NullString THEN <<EmptyT(f.tag), NewLine>>
    ELSE LeafElement(f.tag, value)

serializeLeaf(f, value) ==
    IF f.kind = "bool" THEN LeafElement(f.tag, encodeBoolean(value))
    ELSE IF f.kind = "int" THEN LeafElement(f.tag, NumberToChars(value))
    ELSE IF f.kind = "opt" /\ value = NullString THEN LeafElement(f.tag, <<>>)
    ELSE LeafElement(f.tag, value)

\* The concatenation of the sequences ss[lo], ..., ss[hi], in order.
RECURSIVE Flatten(_, _, _)
Flatten(ss, lo, hi) ==
    IF lo > hi THEN <<>>
    ELSE IF lo = hi THEN ss[lo]
    ELSE Flatten(ss, lo, (lo + hi) \div 2) \o Flatten(ss, ((lo + hi) \div 2) + 1, hi)

\* An entity: its fields in schema order; a repeatable section is written
\* as repeated sibling elements.
RECURSIVE SerializeEntity(_, _, _)
\* Repeated siblings written last first.
SerializeList_reversed(tag, type, list) ==
    Flatten([i \in 1..Len(list) |-> SerializeEntity(tag, type, list[Len(list) + 1 - i])],
            1, Len(list))

SerializeList(tag, type, list) ==
    Flatten([i \in 1..Len(list) |-> SerializeEntity(tag, type, list[i])], 1, Len(list))

SerializeField(f, entity) ==
    IF f.kind = "one" THEN SerializeEntity(f.tag, f.type, entity[f.field])
    ELSE IF f.kind = "many" THEN SerializeList(f.tag, f.type, entity[f.field])
    ELSE serializeLeaf(f, entity[f.field])

SerializeFields(type, entity) ==
    Flatten([i \in 1..Len(Schema[type]) |-> SerializeField(Schema[type][i], entity)],
            1, Len(Schema[type]))

SerializeEntity(tag, type, entity) ==
    <<OpenT(tag), NewLine>> \o SerializeFields(type, entity) \o <<CloseT(tag), NewLine>>

serializeMSFToXML(doc) ==
    <<XmlDecl, NewLine>> \o SerializeEntity("instrument", "instrument", doc.instrument)

(***************************************************************************)
(* Parser (msfParser.ts).                                                  *)
(***************************************************************************)
\* An XML element: its tag, its character data and its child elements.
Element(tag, text, children) == [tag |-> tag, text |-> text, children |-> children]

NoElement == Element("", <<>>, <<>>)

IsWhiteSpace(chars) == \A i \in 1..Len(chars) : chars[i] \in WhiteSpace

\* The nesting depth at each of the tokens lo..hi, given the depth at lo.
NetDepth(toks, lo, hi) ==
    Cardinality({i \in lo..hi : toks[i].k = "open"}) -
    Cardinality({i \in lo..hi : toks[i].k = "close"})

RECURSIVE Depths(_, _, _, _)
Depths(toks, lo, hi, at) ==
    IF lo > hi THEN <<>>
    ELSE IF lo = hi THEN <<at>>
    ELSE Depths(toks, lo, (lo + hi) \div 2, at) \o
         Depths(toks, ((lo + hi) \div 2) + 1, hi,
                at + NetDepth(toks, lo, (lo + hi) \div 2))

\* The positions lo..hi, in order.
Positions(lo, hi) == [i \in 1..(hi - lo + 1) |-> lo + i - 1]

\* The first of the closing tags at positions ends that follows position i.
EndOf(ends, i) == SelectSeq(ends, LAMBDA c : c > i)[1]

\* The element opened at token p and closed at token q; d holds the nesting
\* depth at each token.  Its children are the elements one level down, its
\* text is its own character data; ok tells that every closing tag in it
\* names the element it closes.
RECURSIVE ParseElement(_, _, _, _)
ParseElement(toks, d, p, q) ==
    LET inner == Positions(p + 1, q - 1)
        starts == SelectSeq(inner, LAMBDA i : d[i] = d[p] + 1 /\ toks[i].k \in {"open", "empty"})
        ends == SelectSeq(inner, LAMBDA i : d[i] = d[p] + 2 /\ toks[i].k = "close")
        texts == SelectSeq(inner, LAMBDA i : d[i] = d[p] + 1 /\ toks[i].k = "text")
        other == SelectSeq(inner, LAMBDA i : toks[i].k = "decl")
        kids == [j \in 1..Len(starts) |->
                    IF toks[starts[j]].k = "empty"
                    THEN [ok |-> TRUE, node |-> Element(toks[starts[j]].v[1], <<>>, <<>>)]
                    ELSE ParseElement(toks, d, starts[j], EndOf(ends, starts[j]))]
    IN  [ok |-> /\ toks[q] = CloseT(toks[p].v[1])
                /\ other = <<>>
                /\ \A j \in 1..Len(kids) : kids[j].ok,
         node |-> Element(toks[p].v[1],
                          Flatten([j \in 1..Len(texts) |-> toks[texts[j]].v], 1, Len(texts)),
                          [j \in 1..Len(kids) |-> kids[j].node])]

\* The position of the first token from p on that is neither the XML
\* declaration nor white space.
RECURSIVE SkipProlog(_, _)
SkipProlog(toks, p) ==
    IF p <= Len(toks) /\ (toks[p].k = "decl" \/ (toks[p].k = "text" /\ IsWhiteSpace(toks[p].v)))
    THEN SkipProlog(toks, p + 1)
    ELSE p

\* The root element of a well-formed document, or ok = FALSE.
ParseDocument(toks) ==
    LET p == SkipProlog(toks, 1)
        d == Depths(toks, 1, Len(toks), 0)
        ends == SelectSeq(Positions(p + 1, Len(toks)),
                          LAMBDA i : d[i] = d[p] + 1 /\ toks[i].k = "close")
    IN  IF p <= Len(toks) /\ toks[p].k = "open" /\ ends # <<>>
        THEN LET e == ParseElement(toks, d, p, ends[1])
             IN  IF e.ok /\ SkipProlog(toks, ends[1] + 1) = Len(toks) + 1 THEN e
                 ELSE [ok |-> FALSE, node |-> NoElement]
        ELSE [ok |-> FALSE, node |-> NoElement]

\* The sentinel decoding of a boolean field.
decodeBoolean_nonZero(chars) == chars # <<"0">>

decodeBoolean(chars) == chars = <<"-", "1">>

ChildrenNamed(node, tag) == SelectSeq(node.children, LAMBDA n : n.tag = tag)

\* The character data of the first child of that tag; none counts as empty.
ChildText(node, tag) ==
    IF ChildrenNamed(node, tag) = <<>> THEN <<>> ELSE ChildrenNamed(node, tag)[1].text

parseLeaf(f, chars) ==
    IF f.kind = "bool" THEN decodeBoolean(chars)
    ELSE IF f.kind = "int" THEN CharsToNumber(chars)
    ELSE IF f.kind = "opt" /\ chars = <<>> THEN NullString
    ELSE chars

SchemaField(type, name) == CHOOSE f \in {Schema[type][i] : i \in 1..Len(Schema[type])} : f.field = name

FieldNames(type) == {Schema[type][i].field : i \in 1..Len(Schema[type])}

\* The normalized entity of an element: every repeatable child becomes a
\* list, in source order, whatever the number of occurrences.
RECURSIVE Normalize(_, _)
Normalize(type, node) ==
    [name \in FieldNames(type) |->
        LET f == SchemaField(type, name)
            kids == ChildrenNamed(node, f.tag)
        IN  IF f.kind = "one"
            THEN Normalize(f.type, IF kids = <<>> THEN NoElement ELSE kids[1])
            ELSE IF f.kind = "many"
            THEN [i \in 1..Len(kids) |-> Normalize(f.type, kids[i])]
            ELSE parseLeaf(f, ChildText(node, f.tag))]

FormatError == [error |-> "FormatError"]

parseMSFXML(toks) ==
    LET root == ParseDocument(toks)
    IN  IF root.ok /\ root.node.tag = "instrument"
        THEN [instrument |-> Normalize("instrument", root.node)]
        ELSE FormatError

\* extractAllUUIDs: the pui and dui of every entity, in document order.
RECURSIVE EntityIds(_, _)
ListIds(type, list) ==
    Flatten([i \in 1..Len(list) |-> EntityIds(type, list[i])], 1, Len(list))

SectionIds(f, entity) ==
    IF f.kind = "one" THEN EntityIds(f.type, entity[f.field])
    ELSE IF f.kind = "many" THEN ListIds(f.type, entity[f.field])
    ELSE <<>>

EntityIds(type, entity) ==
    <<entity.pui, entity.dui>> \o
    Flatten([i \in 1..Len(Schema[type]) |-> SectionIds(Schema[type][i], entity)],
            1, Len(Schema[type]))

extractAllUUIDs(doc) == EntityIds("instrument", doc.instrument)

(***************************************************************************)
(* Round trip: documents are authored outside, parsed, edited in the       *)
(* session, serialized, and what was written is parsed and written again.  *)
(***************************************************************************)
SampleHeader ==
    [pui |-> DocumentId(2),
     dui |-> DocumentId(3),
     model |-> <<"7", "7">>,
     manufacturer |-> <<"F", "l", "u", "k", "e">>,
     description |-> <<"D", "M", "M">>,
     confidence |-> 0,
     confidenceDesc |-> <<>>,
     specreference |-> <<>>,
     author |-> <<>>,
     verifiedby |-> <<>>,
     approvedby |-> <<>>,
     approvedate |-> <<>>,
     save_date |-> <<>>,
     saved_by |-> <<>>,
     revision |-> 12,
     app_name |-> <<>>,
     app_version |-> <<>>,
     source_filename |-> <<>>,
     source_date |-> <<>>,
     lims_widgetcode |-> 0,
     lims_equipclass |-> 0,
     noteidlist |-> <<>>,
     isactive |-> TRUE,
     verified |-> FALSE,
     review |-> FALSE,
     revisionnotes |-> <<>>]

\* The shape and the modifier of the i-th function of a sample document.
DocShape(i) == IF i % 3 = 1 THEN <<0, 2>> ELSE IF i % 3 = 2 THEN <<>> ELSE <<1>>

DocModifier(i) == IF i % 2 = 1 THEN NullString ELSE <<"R", "M", "S">>

RECURSIVE DocFunctionBase(_)
DocFunctionBase(i) ==
    IF i = 1 THEN 4 ELSE DocFunctionBase(i - 1) + ShapeIdCount(DocShape(i - 1))

\* A document of n functions.
SampleDocument(n) ==
    [instrument |->
        [pui |-> DocumentId(0),
         dui |-> DocumentId(1),
         verified |-> TRUE,
         review |-> FALSE,
         filenotes |-> <<>>,
         filehistory |-> <<"h">>,
         header |-> SampleHeader,
         functions |-> [i \in 1..n |->
                           SampleFunctionAt(DocModifier(i), DocShape(i),
                                            DocFunctionBase(i), i - 1)]]]

TagsOfKind(kind) ==
    UNION {{Schema[type][i].tag : i \in {j \in 1..Len(Schema[type]) : Schema[type][j].kind = kind}} :
              type \in DOMAIN Schema}

BoolTags == TagsOfKind("bool")

IntTags == TagsOfKind("int")

\* How an outside author writes a document: as the owning software does
\* ("canonical"), indented and with CRLF line ends ("indented"), or with
\* other numerals: 1 for false, 00 for 0 ("loose").
Styles == {"canonical", "indented", "loose"}

RestyleToken(toks, i, style) ==
    LET tok == toks[i]
        after == IF i > 1 /\ toks[i - 1].k = "open" THEN toks[i - 1].v[1] ELSE ""
    IN  IF tok.k # "text" THEN tok
        ELSE IF style = "indented" /\ tok = NewLine THEN TextT(<<CR, LF, " ", " ">>)
        ELSE IF style = "loose" /\ after \in BoolTags /\ tok.v = <<"0">> THEN TextT(<<"1">>)
        ELSE IF style = "loose" /\ after \in IntTags /\ tok.v = <<"0">> THEN TextT(<<"0", "0">>)
        ELSE tok

Restyle(toks, style) == [i \in 1..Len(toks) |-> RestyleToken(toks, i, style)]

AuthoredDocuments ==
    {Restyle(serializeMSFToXML(SampleDocument(n)), style) :
        n \in 0..MaxDocFunctions, style \in Styles}

\* Texts that are no MSF document: no XML, and a root of another name.
MalformedDocuments ==
    { <<TextT(<<"n", "o", "t", " ", "x", "m", "l">>)>>,
      <<XmlDecl, OpenT("notinstrument"), CloseT("notinstrument")>> }

IsDocument(t) == t # NULL /\ t # FormatError

\* The round trip touches no state of the other components.
WireFrame == UNCHANGED <<uuidVars, lineVars, tmplVars, pageVars, storeVars, heapVars>>

WireInit ==
    /\ xmlIn = <<>>
    /\ tree = NULL
    /\ treeEdits = 0
    /\ xmlOut = <<>>
    /\ reparsed = NULL
    /\ xmlOut2 = <<>>

\* A document text arrives.
ReadDocument ==
    /\ xmlIn = <<>>
    /\ xmlIn' \in AuthoredDocuments \cup MalformedDocuments
    /\ UNCHANGED <<drawn, tree, treeEdits, xmlOut, reparsed, xmlOut2>>
    /\ WireFrame

\* A call of parseMSFXML(xmlIn).
ParseMSFXML ==
    /\ xmlIn # <<>>
    /\ tree = NULL
    /\ tree' = parseMSFXML(xmlIn)
    /\ UNCHANGED <<drawn, xmlIn, treeEdits, xmlOut, reparsed, xmlOut2>>
    /\ WireFrame

\* The session sets the modifier of a function.
SetModifier ==
    /\ IsDocument(tree)
    /\ xmlOut = <<>>
    /\ treeEdits < MaxTreeEdits
    /\ \E i \in 1..Len(tree.instrument.functions), m \in SampleModifiers :
           /\ m # tree.instrument.functions[i].modifier
           /\ tree' = [tree EXCEPT !.instrument.functions[i].modifier = m]
    /\ treeEdits' = treeEdits + 1
    /\ UNCHANGED <<drawn, xmlIn, xmlOut, reparsed, xmlOut2>>
    /\ WireFrame

\* The session sets the review mark of the document or of a function.
SetReview ==
    /\ IsDocument(tree)
    /\ xmlOut = <<>>
    /\ treeEdits < MaxTreeEdits
    /\ \/ tree' = [tree EXCEPT !.instrument.review = ~@]
       \/ \E i \in 1..Len(tree.instrument.functions) :
              tree' = [tree EXCEPT !.instrument.functions[i].review = ~@]
    /\ treeEdits' = treeEdits + 1
    /\ UNCHANGED <<drawn, xmlIn, xmlOut, reparsed, xmlOut2>>
    /\ WireFrame

\* The session copies a function of the document: it extracts its template
\* and adds the function created from it at the end.
CopyFunction ==
    /\ IsDocument(tree)
    /\ xmlOut = <<>>
    /\ treeEdits < MaxTreeEdits
    /\ \E i \in 1..Len(tree.instrument.functions) :
           LET t == extractFunctionTemplate(tree.instrument.functions[i])
               f == createFunctionFromTemplate(t, Len(tree.instrument.functions), drawn)
           IN  /\ tree' = [tree EXCEPT !.instrument.functions = Append(@, f)]
               /\ drawn' = drawn + FunctionDraws(t)
    /\ treeEdits' = treeEdits + 1
    /\ UNCHANGED <<xmlIn, xmlOut, reparsed, xmlOut2>>
    /\ WireFrame

\* A call of serializeMSFToXML(tree).
SerializeMSFToXML ==
    /\ IsDocument(tree)
    /\ xmlOut = <<>>
    /\ xmlOut' = serializeMSFToXML(tree)
    /\ UNCHANGED <<drawn, xmlIn, tree, treeEdits, reparsed, xmlOut2>>
    /\ WireFrame

\* What was written is parsed again.
ReparseMSFXML ==
    /\ xmlOut # <<>>
    /\ reparsed = NULL
    /\ reparsed' = parseMSFXML(xmlOut)
    /\ UNCHANGED <<drawn, xmlIn, tree, treeEdits, xmlOut, xmlOut2>>
    /\ WireFrame

\* And written again.
ReserializeMSFToXML ==
    /\ IsDocument(reparsed)
    /\ xmlOut2 = <<>>
    /\ xmlOut2' = serializeMSFToXML(reparsed)
    /\ UNCHANGED <<drawn, xmlIn, tree, treeEdits, xmlOut, reparsed>>
    /\ WireFrame

WireNext ==
    \/ ReadDocument
    \/ ParseMSFXML
    \/ SetModifier
    \/ SetReview
    \/ CopyFunction
    \/ SerializeMSFToXML
    \/ ReparseMSFXML
    \/ ReserializeMSFToXML

(***************************************************************************)
(* Page Mapper (pdfPageMapper.ts): the in-memory store.  A Map is the      *)
(* sequence of its entries in insertion order.                             *)
(***************************************************************************)
MapHas(map, key) == \E i \in 1..Len(map) : map[i].functionPUI = key

\* Map.prototype.get, for a key the map has.
MapGet(map, key) == map[CHOOSE i \in 1..Len(map) : map[i].functionPUI = key].pageNumber

\* Map.prototype.set: a key the map has keeps its place.
MapSet(map, key, value) ==
    IF MapHas(map, key)
    THEN [i \in 1..Len(map) |->
             IF map[i].functionPUI = key THEN [map[i] EXCEPT !.pageNumber = value] ELSE map[i]]
    ELSE Append(map, [functionPUI |-> key, pageNumber |-> value])

\* Map.prototype.delete.
MapDelete(map, key) == SelectSeq(map, LAMBDA e : e.functionPUI # key)

\* The number value NaN; every other number of the model is an integer.
NaN == -1000

\* a < b of JavaScript: false when an operand is NaN.
LessThan(a, b) == a # NaN /\ b # NaN /\ a < b

\* The numbers that "||" takes for false.
Falsy(v) == v = 0 \/ v = NaN

\* Without the test of the page number.
setPageMapping_anyPage(map, functionPUI, pageNumber) ==
    IF functionPUI = <<>> THEN map ELSE MapSet(map, functionPUI, pageNumber)

\* Without the test of the identifier.
setPageMapping_anyId(map, functionPUI, pageNumber) ==
    IF LessThan(pageNumber, 1) THEN map ELSE MapSet(map, functionPUI, pageNumber)

\* The store after setPageMapping(functionPUI, pageNumber).  Of the strings,
\* only the empty one is falsy.
setPageMapping(map, functionPUI, pageNumber) ==
    IF LessThan(pageNumber, 1) THEN map
    ELSE IF functionPUI = <<>> THEN map
    ELSE MapSet(map, functionPUI, pageNumber)

\* getPageMapping(functionPUI): the page as [pageNumber |-> n], or NULL;
\* "|| null" gives null for a missing and for a falsy value.
getPageMapping(map, functionPUI) ==
    IF MapHas(map, functionPUI) /\ ~Falsy(MapGet(map, functionPUI))
    THEN [pageNumber |-> MapGet(map, functionPUI)]
    ELSE NULL

\* The entries are stored as they come, and the old ones are kept.
RECURSIVE loadPageMappings_merge(_, _)
loadPageMappings_merge(map, mappings) ==
    IF mappings = <<>> THEN map
    ELSE loadPageMappings_merge(MapSet(map, mappings[1].functionPUI, mappings[1].pageNumber),
                                Tail(mappings))

\* The entries stay.
clearAllPageMappings_keep(map) == map

\* Nothing is deleted.
removePageMapping_noop(map, functionPUI) == map

removePageMapping(map, functionPUI) == MapDelete(map, functionPUI)

clearAllPageMappings(map) == <<>>

getAllPageMappings(map) == map

\* mappings.forEach(setPageMapping) from entry i on.
RECURSIVE SetEach(_, _, _)
SetEach(map, mappings, i) ==
    IF i > Len(mappings) THEN map
    ELSE SetEach(setPageMapping(map, mappings[i].functionPUI, mappings[i].pageNumber),
                 mappings, i + 1)

loadPageMappings(map, mappings) == SetEach(clearAllPageMappings(map), mappings, 1)

\* The identifiers handed to the store: a well-formed one, one that is not
\* of the grammar, and the empty string.
FUNC_1 == Str(<<"{", "F", "U", "N", "C", "-", "1", "}">>)

SampleIds == {DocumentId(0), FUNC_1, <<>>}

SamplePages == (-1..MaxPage) \cup {NaN}

Mapping(functionPUI, pageNumber) == [functionPUI |-> functionPUI, pageNumber |-> pageNumber]

\* The lists handed to loadPageMappings.
SampleMappings ==
    { <<>>,
      <<Mapping(DocumentId(0), 2)>>,
      <<Mapping(FUNC_1, 1), Mapping(DocumentId(0), 0)>>,
      <<Mapping(FUNC_1, NaN)>>,
      <<Mapping(DocumentId(0), 1), Mapping(<<>>, 2), Mapping(DocumentId(0), 2)>> }

MapFrame == UNCHANGED <<drawn, uuidVars, lineVars, tmplVars, wireVars, persistVars, estimate, storeVars, heapVars>>

MapInit ==
    /\ pageMappings = <<>>
    /\ calls = <<>>
    /\ lookup = NULL

\* A call of setPageMapping(id, p).
SetPageMapping ==
    /\ Len(calls) < MaxCalls
    /\ \E id \in SampleIds, p \in SamplePages :
           /\ pageMappings' = setPageMapping(pageMappings, id, p)
           /\ calls' = Append(calls, [op |-> "set", functionPUI |-> id, pageNumber |-> p,
                                      mappings |-> <<>>])
    /\ lookup' = NULL
    /\ MapFrame

\* A call of removePageMapping(id).
RemovePageMapping ==
    /\ Len(calls) < MaxCalls
    /\ \E id \in SampleIds :
           /\ pageMappings' = removePageMapping(pageMappings, id)
           /\ calls' = Append(calls, [op |-> "remove", functionPUI |-> id, pageNumber |-> 0,
                                      mappings |-> <<>>])
    /\ lookup' = NULL
    /\ MapFrame

\* A call of clearAllPageMappings().
ClearAllPageMappings ==
    /\ Len(calls) < MaxCalls
    /\ pageMappings' = clearAllPageMappings(pageMappings)
    /\ calls' = Append(calls, [op |-> "clear", functionPUI |-> <<>>, pageNumber |-> 0,
                               mappings |-> <<>>])
    /\ lookup' = NULL
    /\ MapFrame

\* A call of loadPageMappings(ms).
LoadPageMappings ==
    /\ Len(calls) < MaxCalls
    /\ \E ms \in SampleMappings :
           /\ pageMappings' = loadPageMappings(pageMappings, ms)
           /\ calls' = Append(calls, [op |-> "load", functionPUI |-> <<>>, pageNumber |-> 0,
                                      mappings |-> ms])
    /\ lookup' = NULL
    /\ MapFrame

\* A call of getPageMapping(id).
GetPageMapping ==
    /\ lookup = NULL
    /\ \E id \in SampleIds :
           lookup' = [functionPUI |-> id, result |-> getPageMapping(pageMappings, id)]
    /\ UNCHANGED <<pageMappings, calls>>
    /\ MapFrame

MapNext ==
    \/ SetPageMapping
    \/ RemovePageMapping
    \/ ClearAllPageMappings
    \/ LoadPageMappings
    \/ GetPageMapping

(***************************************************************************)
(* Page Mapper: persistence.  The storage surface maps keys to strings; a  *)
(* JSON text is a sequence of tokens [k, v], v the characters of a key, of *)
(* a string or of a number.                                                *)
(***************************************************************************)
Json(k, v) == [k |-> k, v |-> v]

JsonKey(name) == Json("key", <<name>>)

\* JSON.stringify of one mapping.
StringifyMapping(mapping) ==
    << Json("{", <<>>),
       JsonKey("functionPUI"), Json("string", mapping.functionPUI), Json(",", <<>>),
       JsonKey("pageNumber"), Json("number", NumberToChars(mapping.pageNumber)),
       Json("}", <<>>) >>

\* JSON.stringify(mappings).
JSON_stringify(mappings) ==
    <<Json("[", <<>>)>> \o
    Flatten([i \in 1..Len(mappings) |->
                (IF i > 1 THEN <<Json(",", <<>>)>> ELSE <<>>) \o StringifyMapping(mappings[i])],
            1, Len(mappings)) \o
    <<Json("]", <<>>)>>

\* JSON.parse(data): [ok |-> TRUE, value |-> the list], or ok = FALSE for
\* the SyntaxError it throws.  An array of n mappings has 8n + 1 tokens
\* (two tokens when n = 0).
JSON_parse(data) ==
    LET n == Len(data) \div 8
        At(i, j) == data[8 * (i - 1) + 1 + j]
        wellFormed ==
            /\ Len(data) >= 2
            /\ data[1].k = "["
            /\ data[Len(data)].k = "]"
            /\ Len(data) = IF n = 0 THEN 2 ELSE 8 * n + 1
            /\ \A i \in 1..n :
                  /\ At(i, 1).k = "{"
                  /\ At(i, 2) = JsonKey("functionPUI")
                  /\ At(i, 3).k = "string"
                  /\ At(i, 4).k = ","
                  /\ At(i, 5) = JsonKey("pageNumber")
                  /\ At(i, 6).k = "number"
                  /\ At(i, 7).k = "}"
                  /\ i < n => At(i, 8).k = ","
    IN  IF wellFormed
        THEN [ok |-> TRUE,
              value |-> [i \in 1..n |-> [functionPUI |-> At(i, 3).v,
                                         pageNumber |-> CharsToNumber(At(i, 6).v)]]]
        ELSE [ok |-> FALSE, value |-> <<>>]

\* The key of a document path.
StorageKey(documentPath) == <<"pdf_page_mappings:", documentPath>>

\* The Storage methods; getItem gives the empty text for null.
setItem(storage, key, value) ==
    [k \in DOMAIN storage \cup {key} |-> IF k = key THEN value ELSE storage[k]]

getItem(storage, key) == IF key \in DOMAIN storage THEN storage[key] ELSE <<>>

removeItem(storage, key) == [k \in DOMAIN storage \ {key} |-> storage[k]]

\* Another key is written.
persistMappings_oneKey(storage, documentPath, mappings) ==
    setItem(storage, StorageKey(""), JSON_stringify(mappings))

\* The storage after persistMappings(documentPath, mappings) returned.
persistMappings(storage, documentPath, mappings) ==
    setItem(storage, StorageKey(documentPath), JSON_stringify(mappings))

\* The result of loadPersistedMappings(documentPath) when getItem returned.
loadPersistedMappings(storage, documentPath) ==
    LET data == getItem(storage, StorageKey(documentPath))
    IN  IF data = <<>> THEN <<>>
        ELSE IF JSON_parse(data).ok THEN JSON_parse(data).value
        ELSE <<>>

clearPersistedMappings(storage, documentPath) == removeItem(storage, StorageKey(documentPath))

SamplePaths == {"doc1.msf", "doc2.msf"}

\* The lists handed to persistMappings.
PersistedSamples ==
    { <<>>,
      <<Mapping(FUNC_1, 5)>>,
      <<Mapping(DocumentId(0), 1), Mapping(FUNC_1, 10)>> }

\* A stored text that is no JSON.
InvalidJson == <<Json("text", Str(<<"i", "n", "v", "a", "l", "i", "d">>)), Json("{", <<>>)>>

PersistFrame == UNCHANGED <<drawn, uuidVars, lineVars, tmplVars, wireVars, mapVars, estimate, storeVars, heapVars>>

Ended(op, documentPath, raised, result) ==
    [op |-> op, documentPath |-> documentPath, raised |-> raised, result |-> result]

PersistInit ==
    /\ localStorage = <<>>
    /\ persisted = [d \in SamplePaths |-> [state |-> "none", mappings |-> <<>>]]
    /\ outcome = Ended("none", "", FALSE, <<>>)

\* A call of persistMappings(d, ms): localStorage.setItem may throw (quota,
\* access denied), and nothing catches it.
PersistMappings ==
    \E d \in SamplePaths, ms \in PersistedSamples :
        /\ \/ /\ localStorage' = persistMappings(localStorage, d, ms)
              /\ persisted' = [persisted EXCEPT ![d] = [state |-> "persisted", mappings |-> ms]]
              /\ outcome' = Ended("persist", d, FALSE, <<>>)
           \/ /\ UNCHANGED <<localStorage, persisted>>
              /\ outcome' = Ended("persist", d, TRUE, <<>>)
        /\ PersistFrame

\* A call of loadPersistedMappings(d): localStorage.getItem may throw
\* outside the try block; the SyntaxError of JSON.parse is caught.
LoadPersistedMappings ==
    \E d \in SamplePaths :
        /\ \/ outcome' = Ended("load", d, FALSE, loadPersistedMappings(localStorage, d))
           \/ outcome' = Ended("load", d, TRUE, <<>>)
        /\ UNCHANGED <<localStorage, persisted>>
        /\ PersistFrame

\* A call of clearPersistedMappings(d): localStorage.removeItem may throw.
ClearPersistedMappings ==
    \E d \in SamplePaths :
        /\ \/ /\ localStorage' = clearPersistedMappings(localStorage, d)
              /\ persisted' = [persisted EXCEPT ![d] = [state |-> "none", mappings |-> <<>>]]
              /\ outcome' = Ended("clear", d, FALSE, <<>>)
           \/ /\ UNCHANGED <<localStorage, persisted>>
              /\ outcome' = Ended("clear", d, TRUE, <<>>)
        /\ PersistFrame

\* Something else writes a text that is no JSON under the key of a path.
CorruptStorage ==
    \E d \in SamplePaths :
        /\ localStorage' = setItem(localStorage, StorageKey(d), InvalidJson)
        /\ persisted' = [persisted EXCEPT ![d] = [state |-> "corrupted", mappings |-> <<>>]]
        /\ outcome' = Ended("none", "", FALSE, <<>>)
        /\ PersistFrame

PersistNext ==
    \/ PersistMappings
    \/ LoadPersistedMappings
    \/ ClearPersistedMappings
    \/ CorruptStorage

(***************************************************************************)
(* Page Mapper: estimatePageNumber.  A number is [infinite, n]: a division *)
(* by zero gives Infinity.                                                 *)
(***************************************************************************)
Num(n) == [infinite |-> FALSE, n |-> n]

Infinity == [infinite |-> TRUE, n |-> 0]

\* totalPages was not given.
UnknownPages == -1

\* Rounded up, not down.
FloorDiv_ceil(a, b) == IF b = 0 THEN Infinity ELSE Num((a + b - 1) \div b)

\* Math.floor(a / b) for a > 0 and b >= 0.
FloorDiv(a, b) == IF b = 0 THEN Infinity ELSE Num(a \div b)

\* 1 + sequence * x for sequence > 0.
OnePlusTimes(sequence, x) == IF x.infinite THEN Infinity ELSE Num(1 + sequence * x.n)

\* Math.max(1, x).
MaxWithOne(x) == IF x.infinite \/ x.n >= 1 THEN x ELSE Num(1)

\* The first function is not special.
estimatePageNumber_noFirst(sequence, totalFunctions, totalPages) ==
    IF totalPages # UnknownPages /\ totalPages # 0
    THEN MaxWithOne(OnePlusTimes(sequence + 1, FloorDiv(totalPages, totalFunctions)))
    ELSE Num(1 + (sequence + 1) * 3)

\* Pages are counted down.
estimatePageNumber_descending(sequence, totalFunctions, totalPages) ==
    IF sequence = 0 THEN Num(1)
    ELSE IF totalPages # UnknownPages /\ totalPages # 0
    THEN MaxWithOne(Num(totalPages - sequence))
    ELSE Num(1 + sequence * 3)

estimatePageNumber(sequence, totalFunctions, totalPages) ==
    IF sequence = 0 THEN Num(1)
    ELSE IF totalPages # UnknownPages /\ totalPages # 0
    THEN MaxWithOne(OnePlusTimes(sequence, FloorDiv(totalPages, totalFunctions)))
    ELSE Num(1 + sequence * 3)

EstimateFrame == UNCHANGED <<drawn, uuidVars, lineVars, tmplVars, wireVars, mapVars, persistVars, storeVars, heapVars>>

EstimateInit == estimate = NULL

\* A call of estimatePageNumber(sequence, totalFunctions, totalPages), with
\* and without the third argument.
EstimatePageNumber ==
    /\ \E sequence \in 0..MaxSequenceIndex, totalFunctions \in 0..MaxTotalFunctions,
          totalPages \in {UnknownPages} \cup 0..MaxTotalPages :
           estimate' = [sequence |-> sequence,
                        totalFunctions |-> totalFunctions,
                        totalPages |-> totalPages,
                        result |-> estimatePageNumber(sequence, totalFunctions, totalPages)]
    /\ EstimateFrame

EstimateNext == EstimatePageNumber

(***************************************************************************)
(* Editor Store (msfStore.ts): the live tree, the dirty flag and the       *)
(* selection.                                                              *)
(***************************************************************************)
\* The selection; "null" is the type of no selection.
Selection(type, functionPUI, rangePUI, specificationPUI) ==
    [type |-> type, functionPUI |-> functionPUI,
     rangePUI |-> rangePUI, specificationPUI |-> specificationPUI]

NoSelection == Selection("null", NullString, NullString, NullString)

\* The functions of a document without those of the given pui.
WithFunctions(doc, functions) == [doc EXCEPT !.instrument.functions = functions]

\* The last function goes, whatever the pui.
deleteFunction_last(doc, pui) ==
    WithFunctions(doc, SubSeq(doc.instrument.functions, 1, Len(doc.instrument.functions) - 1))

\* The document after deleteFunction(pui): the function goes with all it
\* holds.
deleteFunction(doc, pui) ==
    WithFunctions(doc, SelectSeq(doc.instrument.functions, LAMBDA f : f.pui # pui))

\* The document after addFunction(func): the function is added at the end.
addFunction(doc, func) == WithFunctions(doc, Append(doc.instrument.functions, func))

\* The document after updateFunction(pui, {functionname: name}).
updateFunction(doc, pui, name) ==
    WithFunctions(doc, [i \in 1..Len(doc.instrument.functions) |->
                          IF doc.instrument.functions[i].pui = pui
                          THEN [doc.instrument.functions[i] EXCEPT !.functionname = name]
                          ELSE doc.instrument.functions[i]])

\* The ranges of function i with range j mapped by Op.
WithRange(doc, functionPUI, rangePUI, Op(_)) ==
    WithFunctions(doc, [i \in 1..Len(doc.instrument.functions) |->
        LET f == doc.instrument.functions[i]
        IN  IF f.pui = functionPUI
            THEN [f EXCEPT !.ranges = [j \in 1..Len(f.ranges) |->
                                          IF f.ranges[j].pui = rangePUI
                                          THEN Op(f.ranges[j]) ELSE f.ranges[j]]]
            ELSE f])

\* The document after updateRange(functionPUI, rangePUI, {rangename: name}).
updateRange(doc, functionPUI, rangePUI, name) ==
    WithRange(doc, functionPUI, rangePUI, LAMBDA r : [r EXCEPT !.rangename = name])

\* The document after updateSpecification(functionPUI, rangePUI,
\* specificationPUI, {calinterval: n}).
updateSpecification(doc, functionPUI, rangePUI, specificationPUI, n) ==
    WithRange(doc, functionPUI, rangePUI,
              LAMBDA r : [r EXCEPT !.specifications =
                             [k \in 1..Len(r.specifications) |->
                                 IF r.specifications[k].pui = specificationPUI
                                 THEN [r.specifications[k] EXCEPT !.calinterval = n]
                                 ELSE r.specifications[k]]])

\* The flag is set whether or not a document is loaded.
isDirtyAfterMutation_always(doc) == TRUE

\* The dirty flag after a mutation: set if there is a document to mutate.
isDirtyAfterMutation(doc) == doc # NULL

\* The (function, range) and (function, range, specification) identifier
\* paths of a document.
RangePaths(doc) ==
    UNION {{<<doc.instrument.functions[i].pui, doc.instrument.functions[i].ranges[j].pui>> :
               j \in 1..Len(doc.instrument.functions[i].ranges)} :
           i \in 1..Len(doc.instrument.functions)}

SpecificationPaths(doc) ==
    UNION {UNION {{<<doc.instrument.functions[i].pui,
                     doc.instrument.functions[i].ranges[j].pui,
                     doc.instrument.functions[i].ranges[j].specifications[k].pui>> :
                      k \in 1..Len(doc.instrument.functions[i].ranges[j].specifications)} :
                  j \in 1..Len(doc.instrument.functions[i].ranges)} :
           i \in 1..Len(doc.instrument.functions)}

\* The documents loaded: parsed from a text of 1..MaxDocFunctions functions.
LoadedDocuments ==
    {parseMSFXML(serializeMSFToXML(SampleDocument(n))) : n \in 1..MaxDocFunctions}

\* The function added by the session.
NewFunction(sequence) == SampleFunctionAt(NullString, <<1>>, 40, sequence)

UpdatedName == Str(<<"U", "p", "d", "a", "t", "e", "d">>)

FunctionPUIs(doc) == {doc.instrument.functions[i].pui : i \in 1..Len(doc.instrument.functions)}

Called(op, functionPUI) == [op |-> op, functionPUI |-> functionPUI]

StoreFrame == UNCHANGED <<drawn, uuidVars, lineVars, tmplVars, wireVars, pageVars, heapVars>>

StoreInit ==
    /\ document = NULL
    /\ isDirty = FALSE
    /\ selection = NoSelection
    /\ lastOp = Called("none", NullString)
    /\ storeOps = 0

\* A call of loadDocument(doc, path).
LoadDocument ==
    /\ storeOps < MaxStoreOps
    /\ document' \in LoadedDocuments
    /\ isDirty' = FALSE
    /\ selection' = NoSelection
    /\ lastOp' = Called("loadDocument", NullString)
    /\ storeOps' = storeOps + 1
    /\ StoreFrame

\* A call of clearDocument().
ClearDocument ==
    /\ storeOps < MaxStoreOps
    /\ document' = NULL
    /\ isDirty' = FALSE
    /\ selection' = NoSelection
    /\ lastOp' = Called("clearDocument", NullString)
    /\ storeOps' = storeOps + 1
    /\ StoreFrame

\* A call of markClean().
MarkClean ==
    /\ storeOps < MaxStoreOps
    /\ isDirty' = FALSE
    /\ lastOp' = Called("markClean", NullString)
    /\ storeOps' = storeOps + 1
    /\ UNCHANGED <<document, selection>>
    /\ StoreFrame

\* A call of selectFunction(pui).
SelectFunction ==
    /\ storeOps < MaxStoreOps
    /\ document # NULL
    /\ \E pui \in FunctionPUIs(document) :
           /\ selection' = Selection("function", pui, NullString, NullString)
           /\ lastOp' = Called("selectFunction", pui)
    /\ storeOps' = storeOps + 1
    /\ UNCHANGED <<document, isDirty>>
    /\ StoreFrame

\* A call of updateFunction(pui, {functionname: 'Updated'}); without a
\* document nothing changes.
UpdateFunction ==
    /\ storeOps < MaxStoreOps
    /\ \E pui \in (IF document = NULL THEN {DocumentId(4)} ELSE FunctionPUIs(document)) :
           /\ document' = IF document = NULL THEN NULL
                          ELSE updateFunction(document, pui, UpdatedName)
           /\ lastOp' = Called("updateFunction", pui)
    /\ isDirty' = isDirtyAfterMutation(document)
    /\ storeOps' = storeOps + 1
    /\ UNCHANGED selection
    /\ StoreFrame

\* A call of updateRange(functionPUI, rangePUI, {rangename: 'Updated'}).
UpdateRange ==
    /\ storeOps < MaxStoreOps
    /\ document # NULL
    /\ \E path \in RangePaths(document) :
           /\ document' = updateRange(document, path[1], path[2], UpdatedName)
           /\ lastOp' = Called("updateRange", path[2])
    /\ isDirty' = isDirtyAfterMutation(document)
    /\ storeOps' = storeOps + 1
    /\ UNCHANGED selection
    /\ StoreFrame

\* A call of updateSpecification(functionPUI, rangePUI, specificationPUI,
\* {calinterval: 180}).
UpdateSpecification ==
    /\ storeOps < MaxStoreOps
    /\ document # NULL
    /\ \E path \in SpecificationPaths(document) :
           /\ document' = updateSpecification(document, path[1], path[2], path[3], 180)
           /\ lastOp' = Called("updateSpecification", path[3])
    /\ isDirty' = isDirtyAfterMutation(document)
    /\ storeOps' = storeOps + 1
    /\ UNCHANGED selection
    /\ StoreFrame

\* A call of addFunction(func) with a function of fresh identifiers.
AddFunction ==
    /\ storeOps < MaxStoreOps
    /\ document # NULL
    /\ NewFunction(0).pui \notin FunctionPUIs(document)
    /\ document' = addFunction(document, NewFunction(Len(document.instrument.functions)))
    /\ isDirty' = isDirtyAfterMutation(document)
    /\ lastOp' = Called("addFunction", NewFunction(0).pui)
    /\ storeOps' = storeOps + 1
    /\ UNCHANGED selection
    /\ StoreFrame

\* A call of deleteFunction(pui); the selection of the function is cleared.
DeleteFunction ==
    /\ storeOps < MaxStoreOps
    /\ document # NULL
    /\ \E pui \in FunctionPUIs(document) :
           /\ document' = deleteFunction(document, pui)
           /\ selection' = IF selection.functionPUI = pui THEN NoSelection ELSE selection
           /\ lastOp' = Called("deleteFunction", pui)
    /\ isDirty' = isDirtyAfterMutation(document)
    /\ storeOps' = storeOps + 1
    /\ StoreFrame

StoreNext ==
    \/ LoadDocument
    \/ ClearDocument
    \/ MarkClean
    \/ SelectFunction
    \/ UpdateFunction
    \/ UpdateRange
    \/ UpdateSpecification
    \/ AddFunction
    \/ DeleteFunction

(***************************************************************************)
(* Template Engine: object identity.  The objects and arrays of the        *)
(* JavaScript heap are the cells of a sequence, the address of a cell is   *)
(* its position.  An object is the record of its fields, an array is       *)
(* [items |-> the addresses of its elements]; the fields ranges, parameter *)
(* and specifications of an object hold addresses.  An object literal and  *)
(* Array.prototype.map make new cells; "x: t.x" copies what the field      *)
(* holds, an address included.                                             *)
(***************************************************************************)
ArrayCell(items) == [items |-> items]

\* The number of cells extractRangeTemplate and createRangeFromTemplate
\* make for the range (template) at address a: parameter, specifications,
\* their array, the range.
RangeCells(h, a) == 3 + Len(h[h[a].specifications].items)

\* The cells made for the first k of the ranges.
RECURSIVE RangesCells(_, _, _)
RangesCells(h, ranges, k) ==
    IF k = 0 THEN 0 ELSE RangesCells(h, ranges, k - 1) + RangeCells(h, ranges[k])

\* The generateMOXUUID() calls made for the first k of the range templates.
RECURSIVE RangesDrawsAt(_, _, _)
RangesDrawsAt(h, ranges, k) ==
    IF k = 0 THEN 0
    ELSE RangesDrawsAt(h, ranges, k - 1) + 4 + 2 * Len(h[h[ranges[k]].specifications].items)

\* extractRangeTemplate(range) for the range at address a: the cells it
\* makes, to be placed from address b + 1 on; the last one is the result.
ExtractRangeCells(h, a, b) ==
    LET range == h[a]
        specs == h[range.specifications].items
        k == Len(specs)
    IN  <<extractParameterTemplate(h[range.parameter])>>
        \o [j \in 1..k |-> extractSpecificationTemplate(h[specs[j]])]
        \o <<ArrayCell([j \in 1..k |-> b + 1 + j]),
             [rangename |-> range.rangename,
              rangeid |-> range.rangeid,
              properties |-> range.properties,
              autoassign |-> range.autoassign,
              parameter |-> b + 1,
              specifications |-> b + 2 + k]>>

\* extractFunctionTemplate(func) for the function at address a.
ExtractFunctionCells(h, a, b) ==
    LET func == h[a]
        ranges == h[func.ranges].items
        n == Len(ranges)
    IN  Flatten([i \in 1..n |->
                    ExtractRangeCells(h, ranges[i], b + RangesCells(h, ranges, i - 1))], 1, n)
        \o <<ArrayCell([i \in 1..n |-> b + RangesCells(h, ranges, i)]),
             [functionname |-> func.functionname,
              modifier |-> func.modifier,
              properties |-> func.properties,
              format |-> func.format,
              isoutput |-> func.isoutput,
              ranges |-> b + RangesCells(h, ranges, n) + 1]>>

\* The parameter object of the template is taken over, not made anew.
CreateRangeCells_sharedParameter(h, a, sequence, b, n) ==
    LET tmpl == h[a]
        specs == h[tmpl.specifications].items
        k == Len(specs)
    IN  <<createParameterFromTemplate(h[tmpl.parameter], n + 2)>>
        \o [j \in 1..k |->
               createSpecificationFromTemplate(h[specs[j]], j - 1, n + 4 + 2 * (j - 1))]
        \o <<ArrayCell([j \in 1..k |-> b + 1 + j]),
             [pui |-> generateMOXUUID(n),
              dui |-> generateMOXUUID(n + 1),
              sequence |-> sequence,
              rangename |-> tmpl.rangename,
              rangeid |-> tmpl.rangeid,
              properties |-> tmpl.properties,
              autoassign |-> tmpl.autoassign,
              noteidlist |-> <<>>,
              verified |-> FALSE,
              review |-> FALSE,
              parameter |-> tmpl.parameter,
              specifications |-> b + 2 + k]>>

\* createRangeFromTemplate(template, sequence) for the range template at
\* address a; n is the number of the first draw from the random source.
CreateRangeCells(h, a, sequence, b, n) ==
    LET tmpl == h[a]
        specs == h[tmpl.specifications].items
        k == Len(specs)
    IN  <<createParameterFromTemplate(h[tmpl.parameter], n + 2)>>
        \o [j \in 1..k |->
               createSpecificationFromTemplate(h[specs[j]], j - 1, n + 4 + 2 * (j - 1))]
        \o <<ArrayCell([j \in 1..k |-> b + 1 + j]),
             [pui |-> generateMOXUUID(n),
              dui |-> generateMOXUUID(n + 1),
              sequence |-> sequence,
              rangename |-> tmpl.rangename,
              rangeid |-> tmpl.rangeid,
              properties |-> tmpl.properties,
              autoassign |-> tmpl.autoassign,
              noteidlist |-> <<>>,
              verified |-> FALSE,
              review |-> FALSE,
              parameter |-> b + 1,
              specifications |-> b + 2 + k]>>

\* createFunctionFromTemplate(template, sequence) for the template at
\* address a.
CreateFunctionCells(h, a, sequence, b, n) ==
    LET tmpl == h[a]
        ranges == h[tmpl.ranges].items
        m == Len(ranges)
    IN  Flatten([i \in 1..m |->
                    CreateRangeCells(h, ranges[i], i - 1,
                                     b + RangesCells(h, ranges, i - 1),
                                     n + 2 + RangesDrawsAt(h, ranges, i - 1))], 1, m)
        \o <<ArrayCell([i \in 1..m |-> b + RangesCells(h, ranges, i)]),
             [pui |-> generateMOXUUID(n),
              dui |-> generateMOXUUID(n + 1),
              sequence |-> sequence,
              functionname |-> tmpl.functionname,
              modifier |-> tmpl.modifier,
              properties |-> tmpl.properties,
              format |-> tmpl.format,
              isoutput |-> tmpl.isoutput,
              noteidlist |-> <<>>,
              verified |-> FALSE,
              review |-> FALSE,
              ranges |-> b + RangesCells(h, ranges, m) + 1,
              _uiExpanded |-> FALSE,
              _uiStatus |-> <<"u", "n", "r", "e", "v", "i", "e", "w", "e", "d">>]>>

\* The cells of the object literal of a built-in template, placed from
\* address b + 1 on: parameter, specification, the two arrays, range and
\* template.
LiteralCells(tmpl, b) ==
    << tmpl.ranges[1].parameter,
       tmpl.ranges[1].specifications[1],
       ArrayCell(<<b + 2>>),
       [tmpl.ranges[1] EXCEPT !.parameter = b + 1, !.specifications = b + 3],
       ArrayCell(<<b + 4>>),
       [tmpl EXCEPT !.ranges = b + 5] >>

\* The heap when the module is loaded: PREDEFINED_TEMPLATES.
LibraryHeap ==
    Flatten([i \in 1..Len(TemplateKeys) |->
                LiteralCells(PREDEFINED_TEMPLATES[TemplateKeys[i]], 6 * (i - 1))],
            1, Len(TemplateKeys))

\* The address getTemplate returns for the i-th key: the object of the
\* library itself.
LibraryRef(i) == 6 * i

\* The fields that hold an address.
RefFields == {"ranges", "parameter", "specifications"}

\* The value at an address: arrays as sequences, objects with the values
\* of what they refer to.
RECURSIVE View(_, _)
View(h, a) ==
    IF "items" \in DOMAIN h[a]
    THEN [i \in 1..Len(h[a].items) |-> View(h, h[a].items[i])]
    ELSE [f \in DOMAIN h[a] |-> IF f \in RefFields THEN View(h, h[a][f]) ELSE h[a][f]]

\* The addresses reached from an address.
RECURSIVE Reach(_, _)
Reach(h, a) ==
    {a} \cup
    IF "items" \in DOMAIN h[a]
    THEN UNION {Reach(h, h[a].items[i]) : i \in 1..Len(h[a].items)}
    ELSE UNION {Reach(h, h[a][f]) : f \in DOMAIN h[a] \cap RefFields}

Edited == Str(<<"E", "d", "i", "t", "e", "d">>)

\* An edit in place of a cell: the last element of an array is removed, a
\* field of an object is assigned.
EditCell(cell) ==
    IF "items" \in DOMAIN cell
    THEN [cell EXCEPT !.items = SubSeq(@, 1, Len(@) - 1)]
    ELSE IF "functionname" \in DOMAIN cell THEN [cell EXCEPT !.functionname = Edited]
    ELSE IF "rangename" \in DOMAIN cell THEN [cell EXCEPT !.rangename = Edited]
    ELSE IF "paramname" \in DOMAIN cell THEN [cell EXCEPT !.upperlimit = 7]
    ELSE [cell EXCEPT !.operand = Edited]

HeapFrame == UNCHANGED <<uuidVars, lineVars, tmplVars, wireVars, pageVars, storeVars>>

HeapInit ==
    /\ heap = LibraryHeap
    /\ fnRef = 0
    /\ tmplRef = 0
    /\ templates = {LibraryRef(i) : i \in 1..Len(TemplateKeys)}
    /\ lastHeapOp = "none"
    /\ heapOps = 0

\* getTemplate(key) for a key of the library: the object of the library.
HeapGetTemplate ==
    /\ heapOps < MaxHeapOps
    /\ \E i \in 1..Len(TemplateKeys) : tmplRef' = LibraryRef(i)
    /\ lastHeapOp' = "getTemplate"
    /\ heapOps' = heapOps + 1
    /\ UNCHANGED <<drawn, heap, fnRef, templates>>
    /\ HeapFrame

\* createFunctionFromTemplate(template, s) for the template at hand.
HeapCreateFunctionFromTemplate ==
    /\ heapOps < MaxHeapOps
    /\ tmplRef # 0
    /\ \E s \in {0, MaxSequence} :
           heap' = heap \o CreateFunctionCells(heap, tmplRef, s, Len(heap), drawn)
    /\ fnRef' = Len(heap')
    /\ drawn' = drawn + 2 + RangesDrawsAt(heap, heap[heap[tmplRef].ranges].items,
                                          Len(heap[heap[tmplRef].ranges].items))
    /\ lastHeapOp' = "createFunctionFromTemplate"
    /\ heapOps' = heapOps + 1
    /\ UNCHANGED <<tmplRef, templates>>
    /\ HeapFrame

\* extractFunctionTemplate(func) for the function at hand.
HeapExtractFunctionTemplate ==
    /\ heapOps < MaxHeapOps
    /\ fnRef # 0
    /\ heap' = heap \o ExtractFunctionCells(heap, fnRef, Len(heap))
    /\ tmplRef' = Len(heap')
    /\ templates' = templates \cup {Len(heap')}
    /\ lastHeapOp' = "extractFunctionTemplate"
    /\ heapOps' = heapOps + 1
    /\ UNCHANGED <<drawn, fnRef>>
    /\ HeapFrame

\* The editing session edits, in place, the function at hand or something
\* it holds: a field of the function, its ranges array, a range, its
\* parameter, its specifications array, a specification.
HeapEdit ==
    /\ heapOps < MaxHeapOps
    /\ fnRef # 0
    /\ \E a \in Reach(heap, fnRef) :
           /\ "items" \in DOMAIN heap[a] => heap[a].items # <<>>
           /\ heap' = [heap EXCEPT ![a] = EditCell(heap[a])]
    /\ lastHeapOp' = "edit"
    /\ heapOps' = heapOps + 1
    /\ UNCHANGED <<drawn, fnRef, tmplRef, templates>>
    /\ HeapFrame

HeapNext ==
    \/ HeapGetTemplate
    \/ HeapCreateFunctionFromTemplate
    \/ HeapExtractFunctionTemplate
    \/ HeapEdit

(***************************************************************************)
(* Line Indexer (xmlLineIndex.js).  The document text is a sequence of     *)
(* tokens: the two tags each count as one token of their length in         *)
(* characters, every other token is one character.                         *)
(***************************************************************************)
OpenTag == "<functionname>"

CloseTag == "</functionname>"

\* The number of characters of a token.
TokenWidth(tok) == IF tok = OpenTag THEN 14 ELSE IF tok = CloseTag THEN 15 ELSE 1

RECURSIVE TextWidth(_)
TextWidth(toks) == IF toks = <<>> THEN 0 ELSE TokenWidth(Head(toks)) + TextWidth(Tail(toks))

\* The tokens that hold the character '<'.
HoldsLessThan(tok) == tok \in {OpenTag, CloseTag, "<"}

\* String.prototype.trim.
RECURSIVE TrimLeft(_)
TrimLeft(s) == IF s # <<>> /\ Head(s) \in WhiteSpace THEN TrimLeft(Tail(s)) ELSE s

RECURSIVE TrimRight(_)
TrimRight(s) ==
    IF s # <<>> /\ s[Len(s)] \in WhiteSpace THEN TrimRight(SubSeq(s, 1, Len(s) - 1)) ELSE s

Trim(s) == TrimRight(TrimLeft(s))

NoTrim(s) == s

\* The end (token position of the closing tag) of a match of
\*   /<functionname>([^<]+)<\/functionname>/
\* that starts with the opening tag at position i of the line, or 0.
RECURSIVE ContentEnd(_, _)
ContentEnd(line, j) ==
    IF j <= Len(line) /\ ~HoldsLessThan(line[j]) THEN ContentEnd(line, j + 1) ELSE j

MatchEndAt(line, i) ==
    IF i > Len(line) \/ line[i] # OpenTag THEN 0
    ELSE LET j == ContentEnd(line, i + 1)
         IN  IF j > i + 1 /\ j <= Len(line) /\ line[j] = CloseTag THEN j ELSE 0

\* line.match(functionNameRegex) of a regular expression without the g
\* flag: the leftmost match only, as [index, group] (match.index and
\* match[1]), or NULL.
LineMatch(line) ==
    IF \E i \in 1..Len(line) : MatchEndAt(line, i) > 0
    THEN LET i == CHOOSE k \in 1..Len(line) :
                      /\ MatchEndAt(line, k) > 0
                      /\ \A m \in 1..(k - 1) : MatchEndAt(line, m) = 0
         IN  [index |-> TextWidth(SubSeq(line, 1, i - 1)),
              group |-> SubSeq(line, i + 1, MatchEndAt(line, i) - 1)]
    ELSE NULL

\* xmlString.indexOf('\n', currentPos), with positions counted from 1 and
\* 0 standing for the -1 of "not found".
\* A carriage return taken as a line break of its own.
RECURSIVE IndexOfLF_anyBreak(_, _)
IndexOfLF_anyBreak(text, pos) ==
    IF pos > Len(text) THEN 0
    ELSE IF text[pos] \in {LF, CR} THEN pos
    ELSE IndexOfLF_anyBreak(text, pos + 1)

RECURSIVE IndexOfLF(_, _)
IndexOfLF(text, pos) ==
    IF pos > Len(text) THEN 0
    ELSE IF text[pos] = LF THEN pos
    ELSE IndexOfLF(text, pos + 1)

StripCR(line) ==
    IF line # <<>> /\ line[Len(line)] = CR THEN SubSeq(line, 1, Len(line) - 1) ELSE line

\* The while loop of extractFunctionLineNumbers.
RECURSIVE ScanLines(_, _, _, _)
ScanLines(text, currentPos, lineNumber, index) ==
    IF currentPos > Len(text) THEN index
    ELSE LET nextLineBreak == IndexOfLF(text, currentPos)
             lineEndPos == IF nextLineBreak = 0 THEN Len(text) + 1 ELSE nextLineBreak
             line == StripCR(SubSeq(text, currentPos, lineEndPos - 1))
             match == LineMatch(line)
             pushed == IF match # NULL
                       THEN Append(index, [name |-> Trim(match.group),
                                           lineNumber |-> lineNumber,
                                           columnStart |-> match.index])
                       ELSE index
         IN  ScanLines(text, lineEndPos + 1, lineNumber + 1, pushed)

Reverse(seq) == [i \in 1..Len(seq) |-> seq[Len(seq) + 1 - i]]

extractFunctionLineNumbers_unshift(text) == Reverse(ScanLines(text, 1, 1, <<>>))

extractFunctionLineNumbers(text) ==
    IF text = <<>> THEN <<>> ELSE ScanLines(text, 1, 1, <<>>)

\* The while loop of findFunctionByLineNumber; left and right count from 0
\* as in the code.
RECURSIVE BinarySearch(_, _, _, _)
BinarySearch(index, left, right, lineNumber) ==
    IF left > right THEN NULL
    ELSE LET mid == (left + right) \div 2
             current == index[mid + 1]
         IN  IF current.lineNumber = lineNumber THEN current
             ELSE IF current.lineNumber < lineNumber
                  THEN BinarySearch(index, mid + 1, right, lineNumber)
                  ELSE BinarySearch(index, left, mid - 1, lineNumber)

findFunctionByLineNumber(index, lineNumber) ==
    IF lineNumber \notin Int THEN NULL
    ELSE BinarySearch(index, 0, Len(index) - 1, lineNumber)

isValidLineNumber(index, lineNumber) ==
    IF lineNumber \notin Int THEN FALSE
    ELSE \E i \in 1..Len(index) : index[i].lineNumber = lineNumber

\* String.prototype.includes.
includes(s, sub) ==
    \E i \in 0..(Len(s) - Len(sub)) : SubSeq(s, i + 1, i + Len(sub)) = sub

\* searchFunctions(functionIndex, searchTerm) for an index and a string.
searchFunctions(index, term) ==
    IF term = <<>> \/ Trim(term) = <<>> THEN index
    ELSE LET lowerSearch == Trim(toLowerCase(term))
         IN  SelectSeq(index, LAMBDA fn : includes(toLowerCase(fn.name), lowerSearch))

\* What an editing step appends to the text.
TextPieces ==
    { <<LF>>, <<CR, LF>>, <<" ">>,
      <<OpenTag, "a", CloseTag>>,
      <<OpenTag, " ", "B", " ", CloseTag>>,
      <<OpenTag, CloseTag>> }

\* The Line Indexer touches no state of the other components.
LineFrame == UNCHANGED <<drawn, uuidVars, tmplVars, wireVars, pageVars, storeVars, heapVars>>

LineInit ==
    /\ xmlString = <<>>
    /\ pieces = 0
    /\ functionIndex = <<>>
    /\ phase = "editing"
    /\ query = -1
    /\ found = NULL
    /\ valid = "none"
    /\ searchTerm = NullString
    /\ filtered = <<>>

\* The document text grows by one piece.
TypePiece ==
    /\ phase = "editing"
    /\ pieces < MaxPieces
    /\ \E p \in TextPieces : xmlString' = xmlString \o p
    /\ pieces' = pieces + 1
    /\ UNCHANGED <<functionIndex, phase, query, found, valid, searchTerm, filtered>>
    /\ LineFrame

\* A call of extractFunctionLineNumbers(xmlString).
ExtractFunctionLineNumbers ==
    /\ phase = "editing"
    /\ functionIndex' = extractFunctionLineNumbers(xmlString)
    /\ phase' = "indexed"
    /\ UNCHANGED <<xmlString, pieces, query, found, valid, searchTerm, filtered>>
    /\ LineFrame

\* The line numbers looked up: 0, every line of the text, and one beyond.
QueryLines == 0..(MaxPieces + 2)

\* A call of findFunctionByLineNumber(functionIndex, n).
FindFunctionByLineNumber ==
    /\ phase = "indexed"
    /\ query = -1
    /\ \E n \in QueryLines :
           /\ query' = n
           /\ found' = findFunctionByLineNumber(functionIndex, n)
    /\ valid' = "none"
    /\ UNCHANGED <<xmlString, pieces, functionIndex, phase, searchTerm, filtered>>
    /\ LineFrame

\* A call of isValidLineNumber(functionIndex, query).
IsValidLineNumber ==
    /\ phase = "indexed"
    /\ query >= 0
    /\ valid = "none"
    /\ valid' = IF isValidLineNumber(functionIndex, query) THEN "true" ELSE "false"
    /\ UNCHANGED <<xmlString, pieces, functionIndex, phase, query, found, searchTerm, filtered>>
    /\ LineFrame

\* The terms typed into the search box.
SearchTerms ==
    { <<>>, <<"a">>, <<"A">>, <<"b">>, <<" ">>, <<" ", "b">>, <<"a", " ">>, <<"a", "b">> }

\* A call of searchFunctions(functionIndex, term).
SearchFunctions ==
    /\ phase = "indexed"
    /\ query = -1
    /\ \E term \in SearchTerms :
           /\ searchTerm' = term
           /\ filtered' = searchFunctions(functionIndex, term)
    /\ phase' = "searched"
    /\ UNCHANGED <<xmlString, pieces, functionIndex, query, found, valid>>
    /\ LineFrame

LineNext ==
    \/ SearchFunctions
    \/ TypePiece
    \/ ExtractFunctionLineNumbers
    \/ FindFunctionByLineNumber
    \/ IsValidLineNumber


(***************************************************************************)
(* Line Indexer: properties.                                               *)
(***************************************************************************)
\* The entries of an index on line n, by a linear scan.
EntriesOnLine(index, n) == {i \in 1..Len(index) : index[i].lineNumber = n}

\* C10: on an index built by extractFunctionLineNumbers,
\* findFunctionByLineNumber(index, n) is the entry whose lineNumber is n when
\* there is one and null otherwise, and it is non-null exactly when
\* isValidLineNumber(index, n) is true.
C10_BinarySearchAgreesWithScan ==
    (phase = "indexed" /\ query >= 0) =>
        /\ functionIndex = extractFunctionLineNumbers(xmlString)
        /\ IF EntriesOnLine(functionIndex, query) = {}
           THEN found = NULL
           ELSE \E i \in EntriesOnLine(functionIndex, query) : found = functionIndex[i]
        /\ (found # NULL) <=> isValidLineNumber(functionIndex, query)
        /\ valid # "none" => ((valid = "true") <=> (found # NULL))

\* An index of three entries was searched for the line of its last entry.
C10_Witness ==
    /\ phase = "indexed"
    /\ Len(functionIndex) = 3
    /\ query = functionIndex[3].lineNumber
    /\ found = functionIndex[3]
    /\ valid = "true"


\* The occurrences of the <functionname> leaf tag in a text: the positions
\* of an opening tag that is closed after character data of any length.
TagOccurrences(text) ==
    SelectSeq([i \in 1..Len(text) |-> i],
              LAMBDA i : /\ text[i] = OpenTag
                         /\ ContentEnd(text, i + 1) <= Len(text)
                         /\ text[ContentEnd(text, i + 1)] = CloseTag)

\* The start of the line that position i is on.
LineStart(text, i) ==
    IF \E k \in 1..(i - 1) : text[k] = LF
    THEN 1 + CHOOSE k \in 1..(i - 1) : text[k] = LF /\ \A m \in (k + 1)..(i - 1) : text[m] # LF
    ELSE 1

\* The entry the index is to hold for the occurrence at position i.
OccurrenceEntry(text, i) ==
    [name |-> Trim(SubSeq(text, i + 1, ContentEnd(text, i + 1) - 1)),
     lineNumber |-> 1 + Cardinality({k \in 1..(i - 1) : text[k] = LF}),
     columnStart |-> TextWidth(SubSeq(text, LineStart(text, i), i - 1))]

\* C11: the index holds, in document order, one entry for every occurrence
\* of the <functionname> leaf tag, whatever the number of occurrences on a
\* line and whatever the content, with its name, its 1-based line number and
\* its offset in the line.
C11_EveryOccurrenceIndexed ==
    phase = "indexed" =>
        functionIndex = [j \in 1..Len(TagOccurrences(xmlString)) |->
                            OccurrenceEntry(xmlString, TagOccurrences(xmlString)[j])]

\* The name contains the term when letter case is ignored.
ContainsIgnoringCase(name, term) ==
    \E i \in 0..(Len(name) - Len(term)) :
        \A k \in 1..Len(term) :
            toLowerCaseChar(name[i + k]) = toLowerCaseChar(term[k])

\* C23: searchFunctions(index, term) returns exactly the entries of the
\* index, in index order, whose name contains term as a substring when
\* letter case is ignored, for every string term.
C23_SearchIsSubstringFilter ==
    phase = "searched" =>
        filtered = SelectSeq(functionIndex,
                             LAMBDA fn : ContainsIgnoringCase(fn.name, searchTerm))

\* LF line endings replaced by CRLF.
RECURSIVE ToCRLF(_)
ToCRLF(text) ==
    IF text = <<>> THEN <<>>
    ELSE (IF Head(text) = LF THEN <<CR, LF>> ELSE <<Head(text)>>) \o ToCRLF(Tail(text))

\* C24: for a text written with LF line endings, the index of the text with
\* every LF replaced by CRLF has the same entries: names, 1-based line
\* numbers and column offsets.
C24_LineEndingIndependent ==
    (phase = "indexed" /\ \A i \in 1..Len(xmlString) : xmlString[i] # CR) =>
        extractFunctionLineNumbers(ToCRLF(xmlString)) = functionIndex

\* A text of three LF-ended lines with entries on lines 2 and 3 was indexed;
\* its CRLF form differs from it.
C24_Witness ==
    /\ phase = "indexed"
    /\ \A i \in 1..Len(xmlString) : xmlString[i] # CR
    /\ Cardinality({i \in 1..Len(xmlString) : xmlString[i] = LF}) >= 2
    /\ Len(functionIndex) = 2
    /\ functionIndex[1].lineNumber = 2
    /\ functionIndex[2].lineNumber = 3
    /\ functionIndex[2].columnStart = 1
    /\ Len(ToCRLF(xmlString)) = Len(xmlString) + 2


(***************************************************************************)
(* Template Engine: properties.                                            *)
(***************************************************************************)
\* The pui and dui values of a function entity, level by level.
RangeIds(range) ==
    {range.pui, range.dui, range.parameter.pui, range.parameter.dui}
    \cup UNION {{range.specifications[j].pui, range.specifications[j].dui} :
                   j \in 1..Len(range.specifications)}

FunctionIds(func) ==
    {func.pui, func.dui} \cup UNION {RangeIds(func.ranges[i]) : i \in 1..Len(func.ranges)}

\* C3: two createFunctionFromTemplate calls on one template return entities
\* whose identifier sets (function, ranges, parameters, specifications) are
\* disjoint.
C3_InstancesDisjoint ==
    \A a, b \in 1..Len(created) :
        (a # b /\ created[a].template = created[b].template) =>
            FunctionIds(created[a].result) \cap FunctionIds(created[b].result) = {}

\* Two functions were created from one template that has a range with a
\* specification.
C3_Witness ==
    /\ Len(created) >= 2
    /\ created[1].template = created[2].template
    /\ Len(created[1].template.ranges) >= 1
    /\ Len(created[1].template.ranges[1].specifications) >= 1
    /\ Cardinality(FunctionIds(created[2].result)) >= 8

\* The fields a template must not carry.
IdentityAndAuditFields ==
    {"pui", "dui", "verified", "review", "noteidlist", "sequence", "_uiExpanded", "_uiStatus"}

Stripped(r) == DOMAIN r \cap IdentityAndAuditFields = {}

\* C4: a template returned by extractFunctionTemplate carries no identifier,
\* audit, sequence or view-only field at any level.
C4_TemplateStripped ==
    template # NULL =>
        /\ Stripped(template)
        /\ \A i \in 1..Len(template.ranges) :
               /\ Stripped(template.ranges[i])
               /\ Stripped(template.ranges[i].parameter)
               /\ \A j \in 1..Len(template.ranges[i].specifications) :
                      Stripped(template.ranges[i].specifications[j])

\* A template with a range and a specification was extracted from a function
\* that carries identifiers and set audit fields.
C4_Witness ==
    /\ source # NULL
    /\ source.verified
    /\ template = extractFunctionTemplate(source)
    /\ Len(source.ranges) >= 1
    /\ Len(source.ranges[1].specifications) >= 1
    /\ source.ranges[1].verified
    /\ source.ranges[1].parameter.review

\* C5: createFunctionFromTemplate(t, s) has sequence s; its i-th range has
\* sequence i, the j-th specification of a range sequence j (counted from
\* 0), each parameter sequence 0, and ranges and specifications are in the
\* order of the template.
C5_SequencesDense ==
    \A c \in 1..Len(created) :
        LET t == created[c].template
            f == created[c].result
        IN  /\ f.sequence = created[c].sequence
            /\ Len(f.ranges) = Len(t.ranges)
            /\ \A i \in 1..Len(f.ranges) :
                   /\ f.ranges[i].sequence = i - 1
                   /\ f.ranges[i].rangename = t.ranges[i].rangename
                   /\ f.ranges[i].parameter.sequence = 0
                   /\ f.ranges[i].parameter.upperlimit = t.ranges[i].parameter.upperlimit
                   /\ Len(f.ranges[i].specifications) = Len(t.ranges[i].specifications)
                   /\ \A j \in 1..Len(f.ranges[i].specifications) :
                          /\ f.ranges[i].specifications[j].sequence = j - 1
                          /\ f.ranges[i].specifications[j].calinterval =
                                 t.ranges[i].specifications[j].calinterval

\* A function was created at sequence 2 from a template of two ranges, the
\* second with two specifications.
C5_Witness ==
    /\ Len(created) >= 1
    /\ created[1].sequence = 2
    /\ Len(created[1].result.ranges) = 2
    /\ Len(created[1].result.ranges[2].specifications) = 2
    /\ created[1].result.ranges[2].specifications[2].sequence = 1

\* C19: for a template extracted from a function f, the function created
\* from it gives the same template again:
\* extractFunctionTemplate(createFunctionFromTemplate(extractFunctionTemplate(f), s))
\* = extractFunctionTemplate(f).
C19_ExtractCreateExtract ==
    \A c \in 1..Len(created) :
        \E f \in Functions :
            /\ created[c].template = extractFunctionTemplate(f)
            /\ extractFunctionTemplate(created[c].result) = extractFunctionTemplate(f)

\* A function was created from the template of a loaded function with an
\* absent modifier, two ranges and two specifications in one of them; its
\* identifiers are new.
C19_Witness ==
    /\ source # NULL
    /\ source.modifier = NullString
    /\ Len(source.ranges) = 2
    /\ Len(source.ranges[2].specifications) = 2
    /\ Len(created) >= 1
    /\ created[1].template = extractFunctionTemplate(source)
    /\ created[1].sequence = 1
    /\ created[1].result.pui # source.pui
    /\ created[1].result.ranges[2].parameter.isbipolar

\* The number of specifications of a function.
RECURSIVE SpecificationCount(_, _)
SpecificationCount(ranges, k) ==
    IF k = 0 THEN 0
    ELSE SpecificationCount(ranges, k - 1) + Len(ranges[k].specifications)

\* C27: in a createFunctionFromTemplate result all identifiers are pairwise
\* distinct (no pui equals a dui, no two entities share one), there are
\* 2 x (1 + 2 x ranges + specifications) of them, and none is an
\* identifier of the entity the template was extracted from.
C27_IdentifiersDistinct ==
    \A c \in 1..Len(created) :
        LET f == created[c].result
        IN  /\ Cardinality(FunctionIds(f)) =
                   2 * (1 + 2 * Len(f.ranges) + SpecificationCount(f.ranges, Len(f.ranges)))
            /\ \A g \in Functions :
                   (g # f /\ extractFunctionTemplate(g) = created[c].template) =>
                       FunctionIds(f) \cap FunctionIds(g) = {}

\* A function of two ranges with two specifications each was created from
\* the template of the loaded function: 18 identifiers, none of the 18 of
\* the loaded function.
C27_Witness ==
    /\ source # NULL
    /\ Len(created) >= 1
    /\ created[1].template = extractFunctionTemplate(source)
    /\ Len(created[1].result.ranges) = 2
    /\ Len(created[1].result.ranges[1].specifications) = 2
    /\ Len(created[1].result.ranges[2].specifications) = 2
    /\ Cardinality(FunctionIds(created[1].result) \cup FunctionIds(source)) = 36

\* C21: getTemplate(k) returns the built-in template for every key k of
\* getAvailableTemplates() and null for every other string k, and each
\* built-in template is instantiated by createFunctionFromTemplate like an
\* extracted one.
C21_TemplatesByKeyOnly ==
    /\ looked # NULL =>
          IF \E i \in 1..Len(getAvailableTemplates) : getAvailableTemplates[i] = looked.key
          THEN looked.result = PREDEFINED_TEMPLATES[looked.key]
          ELSE looked.result = NULL
    /\ \A c \in 1..Len(created) :
          extractFunctionTemplate(created[c].result) = created[c].template

(***************************************************************************)
(* Specifications.                                                         *)
(***************************************************************************)
Init ==
    /\ drawn = 0
    /\ UuidInit
    /\ LineInit
    /\ TmplInit
    /\ WireInit
    /\ MapInit
    /\ PersistInit
    /\ EstimateInit
    /\ StoreInit
    /\ HeapInit

SpecUuid == Init /\ [][UuidNext]_vars

SpecLine == Init /\ [][LineNext]_vars

SpecTemplate == Init /\ [][TmplNext]_vars

SpecWire == Init /\ [][WireNext]_vars

SpecMap == Init /\ [][MapNext]_vars

SpecPersist == Init /\ [][PersistNext]_vars

SpecEstimate == Init /\ [][EstimateNext]_vars

SpecStore == Init /\ [][StoreNext]_vars

SpecHeap == Init /\ [][HeapNext]_vars

\* The operations of the in-memory store and of the persisted storage, in
\* any order.
PageNext ==
    \/ Len(calls) < MaxMixedCalls /\ SetPageMapping
    \/ Len(calls) < MaxMixedCalls /\ RemovePageMapping
    \/ Len(calls) < MaxMixedCalls /\ ClearAllPageMappings
    \/ Len(calls) < MaxMixedCalls /\ LoadPageMappings
    \/ PersistMappings
    \/ LoadPersistedMappings
    \/ ClearPersistedMappings

SpecPage == Init /\ [][PageNext]_vars

(***************************************************************************)
(* Identifier Service: properties.                                         *)
(***************************************************************************)
\* The identifier grammar, position by position: '{', 8-4-4-4-12 characters
\* of 0-9 and A-F joined by hyphens, '}', and nothing else.
HyphenPositions == {10, 15, 20, 25}

MOXGrammar(s) ==
    /\ Len(s) = 38
    /\ s[1] = "{"
    /\ s[38] = "}"
    /\ \A i \in 2..37 :
           IF i \in HyphenPositions THEN s[i] = "-" ELSE s[i] \in UpperHexDigits

\* C8: every value returned by generateMOXUUID() satisfies isValidMOXUUID and
\* is '{', 8-4-4-4-12 upper-case hexadecimal digits joined by hyphens, '}'.
C8_GeneratedIsValid ==
    (origin = "generate" /\ edits = 0) =>
        /\ isValidMOXUUID(candidate)
        /\ MOXGrammar(candidate)
        /\ verdict # "invalid"

\* A generated identifier that holds a letter (so upper-casing acted) has
\* been validated.
C8_Witness ==
    /\ origin = "generate"
    /\ edits = 0
    /\ verdict = "valid"
    /\ \E i \in 1..Len(candidate) : candidate[i] \in {"A", "B", "C", "D", "E", "F"}

\* C9: isValidMOXUUID(s) is true exactly when s follows the identifier
\* grammar; the empty string is rejected and the all-zero identifier of
\* generateNullUUID() is accepted.
C9_ValidIffGrammar ==
    /\ verdict # "none" => ((verdict = "valid") <=> MOXGrammar(candidate))
    /\ (verdict # "none" /\ candidate = <<>>) => verdict = "invalid"
    /\ (verdict # "none" /\ origin = "null" /\ edits = 0) => verdict = "valid"

\* A well-formed identifier followed by one extra character was rejected.
C9_Witness ==
    /\ verdict = "invalid"
    /\ Len(candidate) = 39
    /\ MOXGrammar(SubSeq(candidate, 1, 38))

(***************************************************************************)
(* Round trip properties.                                                  *)
(***************************************************************************)
\* The character data of the elements of the given tags, in text order.
LiteralsOf(toks, tags) ==
    LET at == SelectSeq(Positions(1, Len(toks) - 1),
                        LAMBDA i : toks[i].k = "open" /\ toks[i].v[1] \in tags)
    IN  [j \in 1..Len(at) |-> IF toks[at[j] + 1].k = "text" THEN toks[at[j] + 1].v ELSE <<>>]

\* The values of the fields of the given kind, in document order.
RECURSIVE ValuesOf(_, _, _)
FieldValues(kind, f, entity) ==
    IF f.kind = "one" THEN ValuesOf(kind, f.type, entity[f.field])
    ELSE IF f.kind = "many"
    THEN Flatten([i \in 1..Len(entity[f.field]) |-> ValuesOf(kind, f.type, entity[f.field][i])],
                 1, Len(entity[f.field]))
    ELSE IF f.kind = kind THEN <<entity[f.field]>>
    ELSE <<>>

ValuesOf(kind, type, entity) ==
    Flatten([i \in 1..Len(Schema[type]) |-> FieldValues(kind, Schema[type][i], entity)],
            1, Len(Schema[type]))

DocValues(kind, doc) == ValuesOf(kind, "instrument", doc.instrument)

Pristine == IsDocument(tree) /\ treeEdits = 0

\* C1: for a well-formed document x, the tree parsed from the serialization
\* of parse(x) equals parse(x), and extractAllUUIDs gives the same list for
\* both, in the same order.
C1_RoundTripEqual ==
    (Pristine /\ reparsed # NULL) =>
        /\ reparsed = tree
        /\ extractAllUUIDs(reparsed) = extractAllUUIDs(tree)

C1_Witness ==
    /\ Pristine
    /\ reparsed # NULL
    /\ Len(tree.instrument.functions) = 2
    /\ Len(extractAllUUIDs(tree)) > 8
    /\ xmlIn # xmlOut

\* C2: for a tree of the engine (parsed, edited, or extended with a function
\* created from a template), serializing the parse of its serialization
\* gives the serialization again.
C2_SerializeIdempotent == xmlOut2 # <<>> => xmlOut2 = xmlOut

C2_Witness ==
    /\ xmlOut2 # <<>>
    /\ treeEdits > 0
    /\ drawn > 0
    /\ tree.instrument.verified

\* The literals a boolean element may hold in an authored document.
NumericLiterals == {<<"-", "1">>, <<"0">>, <<"1">>, <<"0", "0">>, <<"2">>, <<"-", "0">>}

\* C6: the parser decodes the literal -1 to true and every other literal to
\* false, the serializer writes -1 for true and 0 for false and nothing
\* else, at every level; decoding an encoding gives the boolean back and
\* encoding a decoding gives -1 or 0.
C6_BooleanFidelity ==
    /\ Pristine =>
          DocValues("bool", tree) =
              [i \in 1..Len(LiteralsOf(xmlIn, BoolTags)) |->
                  LiteralsOf(xmlIn, BoolTags)[i] = <<"-", "1">>]
    /\ xmlOut # <<>> =>
          LiteralsOf(xmlOut, BoolTags) =
              [i \in 1..Len(DocValues("bool", tree)) |->
                  IF DocValues("bool", tree)[i] THEN <<"-", "1">> ELSE <<"0">>]
    /\ IsDocument(reparsed) => DocValues("bool", reparsed) = DocValues("bool", tree)
    /\ \A b \in BOOLEAN : decodeBoolean(encodeBoolean(b)) = b
    /\ \A lit \in NumericLiterals :
          /\ decodeBoolean(lit) = (lit = <<"-", "1">>)
          /\ encodeBoolean(decodeBoolean(lit)) \in {<<"-", "1">>, <<"0">>}

C6_Witness ==
    /\ Pristine
    /\ IsDocument(reparsed)
    /\ \E i \in 1..Len(LiteralsOf(xmlIn, BoolTags)) : LiteralsOf(xmlIn, BoolTags)[i] = <<"1">>
    /\ \E i \in 1..Len(LiteralsOf(xmlIn, BoolTags)) : LiteralsOf(xmlIn, BoolTags)[i] = <<"-", "1">>
    /\ Len(tree.instrument.functions) > 0

\* The tree with every absent modifier replaced by the empty string.
EmptyForAbsent(doc) ==
    [doc EXCEPT !.instrument.functions =
        [i \in 1..Len(@) |->
            IF @[i].modifier = NullString THEN [@[i] EXCEPT !.modifier = <<>>] ELSE @[i]]]

\* C7: the parser gives the absent value for an empty modifier and the
\* empty string for any other empty text field; the serializer writes an
\* absent modifier as the open/close pair of an empty one, never as a
\* self-closing element, so a tree serializes as the tree with empty in
\* place of absent does.
C7_AbsentAndEmpty ==
    /\ Pristine =>
          /\ DocValues("opt", tree) =
                 [i \in 1..Len(LiteralsOf(xmlIn, {"modifier"})) |->
                     IF LiteralsOf(xmlIn, {"modifier"})[i] = <<>> THEN NullString
                     ELSE LiteralsOf(xmlIn, {"modifier"})[i]]
          /\ DocValues("text", tree) = LiteralsOf(xmlIn, TagsOfKind("text"))
    /\ xmlOut # <<>> =>
          /\ \A i \in 1..Len(xmlOut) : xmlOut[i].k # "empty"
          /\ xmlOut = serializeMSFToXML(EmptyForAbsent(tree))
          /\ LiteralsOf(xmlOut, {"modifier"}) =
                 [i \in 1..Len(DocValues("opt", tree)) |->
                     IF DocValues("opt", tree)[i] = NullString THEN <<>>
                     ELSE DocValues("opt", tree)[i]]

C7_Witness ==
    /\ xmlOut # <<>>
    /\ \E i \in 1..Len(LiteralsOf(xmlIn, {"modifier"})) : LiteralsOf(xmlIn, {"modifier"})[i] = <<>>
    /\ \E i, j \in 1..Len(tree.instrument.functions) :
           /\ tree.instrument.functions[i].modifier = NullString
           /\ tree.instrument.functions[j].modifier = <<>>
    /\ <<>> \in {DocValues("text", tree)[i] : i \in 1..Len(DocValues("text", tree))}

(***************************************************************************)
(* Page Mapper: properties.                                                *)
(***************************************************************************)
\* A set the store accepts: a page number from 1 on and an identifier that
\* is not empty.
AcceptedSet(id, p) == p >= 1 /\ id # <<>>

Last(S) == CHOOSE k \in S : \A m \in S : m <= k

\* The calls of a log that decide what the store holds for id.
DecidingCalls(log, id) ==
    {k \in 1..Len(log) :
        \/ log[k].op \in {"clear", "load"}
        \/ log[k].op = "remove" /\ log[k].functionPUI = id
        \/ log[k].op = "set" /\ log[k].functionPUI = id /\ AcceptedSet(id, log[k].pageNumber)}

\* The accepted entries of a list for id.
AcceptedEntries(ms, id) ==
    {j \in 1..Len(ms) : ms[j].functionPUI = id /\ AcceptedSet(id, ms[j].pageNumber)}

\* The page of the most recent accepted set for id that was not removed,
\* cleared or replaced by a bulk load since, or NULL.
ExpectedPage(log, id) ==
    IF DecidingCalls(log, id) = {} THEN NULL
    ELSE LET c == log[Last(DecidingCalls(log, id))]
         IN  IF c.op = "set" THEN [pageNumber |-> c.pageNumber]
             ELSE IF c.op = "load" /\ AcceptedEntries(c.mappings, id) # {}
             THEN [pageNumber |-> c.mappings[Last(AcceptedEntries(c.mappings, id))].pageNumber]
             ELSE NULL

\* Every page number handed to the store by the calls of a log is a number.
PageNumbersOnly(log) ==
    \A k \in 1..Len(log) :
        /\ log[k].pageNumber # NaN
        /\ \A j \in 1..Len(log[k].mappings) : log[k].mappings[j].pageNumber # NaN

SetStep == Len(calls') = Len(calls) + 1 /\ calls'[Len(calls')].op = "set"

\* C13: setPageMapping(id, p) with p < 1 leaves the whole store unchanged,
\* a mapping that exists for id included.
C13_NonPositivePageRejected ==
    [][(SetStep /\ LessThan(calls'[Len(calls')].pageNumber, 1)) => pageMappings' = pageMappings]_vars

C13_Witness ==
    /\ Len(calls) = 2
    /\ calls[1].op = "set" /\ calls[1].pageNumber = 2
    /\ calls[2].op = "set" /\ LessThan(calls[2].pageNumber, 1)
    /\ calls[2].functionPUI = calls[1].functionPUI
    /\ getPageMapping(pageMappings, calls[2].functionPUI) = [pageNumber |-> 2]

\* C14 as stated: setPageMapping(id, p) with an identifier that is not of
\* the identifier grammar leaves the whole store unchanged.
C14_MalformedIdRejected ==
    [][(SetStep /\ ~isValidMOXUUID(calls'[Len(calls')].functionPUI))
          => pageMappings' = pageMappings]_vars

\* C14: setPageMapping(id, p) with the empty identifier leaves the whole
\* store unchanged; with any other string, of the grammar or not, and a
\* page number from 1 on it stores p for id.
C14_EmptyIdRejected ==
    [][SetStep =>
          LET id == calls'[Len(calls')].functionPUI
              p == calls'[Len(calls')].pageNumber
          IN  /\ id = <<>> => pageMappings' = pageMappings
              /\ (id # <<>> /\ p >= 1) => getPageMapping(pageMappings', id) = [pageNumber |-> p]]_vars

C14_Witness ==
    /\ Len(calls) = 3
    /\ calls[1].op = "set" /\ calls[1].functionPUI = FUNC_1 /\ calls[1].pageNumber = 1
    /\ calls[2].op = "set" /\ calls[2].functionPUI = <<>> /\ calls[2].pageNumber = 2
    /\ calls[3].op = "set" /\ calls[3].functionPUI = DocumentId(0) /\ calls[3].pageNumber = 2
    /\ ~isValidMOXUUID(FUNC_1)
    /\ getAllPageMappings(pageMappings) = <<Mapping(FUNC_1, 1), Mapping(DocumentId(0), 2)>>

\* C15: a failure of the storage surface never reaches the caller of
\* persistMappings, loadPersistedMappings or clearPersistedMappings: none
\* of them raises, and loadPersistedMappings returns the empty list when
\* the stored value is missing or is no JSON.
C15_StorageFailureContained ==
    /\ ~outcome.raised
    /\ (outcome.op = "load" /\ persisted[outcome.documentPath].state # "persisted")
           => outcome.result = <<>>

\* C16: estimatePageNumber(0, N, T) is 1 for every N and every T, given or
\* not.
C16_FirstFunctionOnPageOne ==
    /\ (estimate # NULL /\ estimate.sequence = 0) => estimate.result = Num(1)
    /\ \A n \in 0..MaxTotalFunctions, t \in {UnknownPages} \cup 0..MaxTotalPages :
           estimatePageNumber(0, n, t) = Num(1)

C16_Witness ==
    /\ estimate # NULL
    /\ estimate.sequence = 0
    /\ estimate.totalFunctions = 0
    /\ estimate.totalPages = MaxTotalPages
    /\ estimate.result = Num(1)

\* x <= y for numbers that may be Infinity.
AtMost(x, y) == y.infinite \/ (~x.infinite /\ x.n <= y.n)

\* C17: with a known total page count T, estimatePageNumber(i, N, T) <=
\* estimatePageNumber(j, N, T) for all sequence indexes i < j, also when T
\* is smaller than N.
C17_EstimateMonotone ==
    (estimate # NULL /\ estimate.totalPages >= 1) =>
        \A i \in 0..(estimate.sequence - 1) :
            AtMost(estimatePageNumber(i, estimate.totalFunctions, estimate.totalPages),
                   estimate.result)

C17_Witness ==
    /\ estimate # NULL
    /\ estimate.totalPages >= 1
    /\ estimate.totalPages < estimate.totalFunctions
    /\ estimate.sequence = MaxSequenceIndex
    /\ estimate.result = Num(1)

\* What is to be loaded under a path: the list last persisted under it, if
\* it was not cleared since.
ExpectedLoad(d) == IF persisted[d].state = "persisted" THEN persisted[d].mappings ELSE <<>>

\* C20: loadPersistedMappings(d) returns the list most recently persisted
\* under d if it was not cleared since and the empty list otherwise,
\* whatever was persisted or cleared under other paths.
C20_PersistedPerPath ==
    /\ \A d \in SamplePaths : loadPersistedMappings(localStorage, d) = ExpectedLoad(d)
    /\ (outcome.op = "load" /\ ~outcome.raised) => outcome.result = ExpectedLoad(outcome.documentPath)

C20_Witness ==
    /\ outcome.op = "load"
    /\ ~outcome.raised
    /\ outcome.documentPath = "doc1.msf"
    /\ Len(outcome.result) = 2
    /\ persisted["doc2.msf"].state = "persisted"
    /\ Len(persisted["doc2.msf"].mappings) = 1

(***************************************************************************)
(* Editor Store: properties.                                               *)
(***************************************************************************)
\* The step is a call of deleteFunction on a loaded document.
DeleteStep == storeOps' = storeOps + 1 /\ lastOp'.op = "deleteFunction" /\ document # NULL

\* C18: after deleteFunction(p) no function of pui p is left, no identifier
\* of the function, its ranges, their parameters and specifications is
\* reachable in the document, there is one function less, and the other
\* functions are unchanged and in their order.
C18_DeleteCascades ==
    [][DeleteStep =>
          LET before == document.instrument.functions
              after == document'.instrument.functions
              p == lastOp'.functionPUI
          IN  /\ \A i \in 1..Len(after) : after[i].pui # p
              /\ \A k \in 1..Len(before) :
                    before[k].pui = p =>
                        /\ \A j \in 1..Len(extractAllUUIDs(document')) :
                              extractAllUUIDs(document')[j] \notin FunctionIds(before[k])
                        /\ after = SubSeq(before, 1, k - 1) \o SubSeq(before, k + 1, Len(before))
              /\ Len(after) = Len(before) - 1]_vars

C18_Witness ==
    /\ lastOp = Called("deleteFunction", DocumentId(4))
    /\ document # NULL
    /\ Len(document.instrument.functions) = 1
    /\ document.instrument.functions[1].pui # DocumentId(4)
    /\ Len(extractAllUUIDs(document)) = 6
    /\ isDirty

\* The store a bulk load of ms is to leave: for every identifier with an
\* accepted entry in ms its last accepted entry, and nothing else.
HoldsExactly(map, ms) ==
    /\ \A i, j \in 1..Len(map) : map[i].functionPUI = map[j].functionPUI => i = j
    /\ \A i \in 1..Len(map) :
           /\ AcceptedEntries(ms, map[i].functionPUI) # {}
           /\ map[i].pageNumber = ms[Last(AcceptedEntries(ms, map[i].functionPUI))].pageNumber
    /\ \A j \in 1..Len(ms) :
           AcceptedSet(ms[j].functionPUI, ms[j].pageNumber) => MapHas(map, ms[j].functionPUI)

C25_StoredPagesPositive ==
    /\ \A i \in 1..Len(getAllPageMappings(pageMappings)) :
           getAllPageMappings(pageMappings)[i].pageNumber >= 1
    /\ \A id \in SampleIds :
           getPageMapping(pageMappings, id) # NULL =>
               getPageMapping(pageMappings, id).pageNumber >= 1

\* C29: with a known total page count T >= 1 and N >= 1 functions,
\* 1 <= estimatePageNumber(i, N, T) <= T for every sequence index i from 0
\* to N - 1.
C29_EstimateInsideDocument ==
    /\ (estimate # NULL /\ estimate.totalPages >= 1 /\ estimate.totalFunctions >= 1
           /\ estimate.sequence < estimate.totalFunctions) =>
          /\ AtMost(Num(1), estimate.result)
          /\ AtMost(estimate.result, Num(estimate.totalPages))
    /\ \A n \in 1..MaxTotalFunctions, t \in 1..MaxTotalPages :
          \A i \in 0..(n - 1) :
              /\ AtMost(Num(1), estimatePageNumber(i, n, t))
              /\ AtMost(estimatePageNumber(i, n, t), Num(t))

\* The estimate for the last of four functions of a document of five pages
\* is page 4.
C29_Witness ==
    /\ estimate # NULL
    /\ estimate.totalPages = 5
    /\ estimate.totalFunctions = 4
    /\ estimate.sequence = 3
    /\ estimate.result = Num(4)

Mutations ==
    {"updateFunction", "updateRange", "updateSpecification", "addFunction", "deleteFunction"}

Resets == {"loadDocument", "clearDocument", "markClean"}

HeapStep(op) == heapOps' = heapOps + 1 /\ lastHeapOp' = op

\* The addresses reached from the templates handed out.
TemplateCells(h) == UNION {Reach(h, t) : t \in templates}

\* C28: extractFunctionTemplate and createFunctionFromTemplate leave their
\* argument as it was and return a structure that shares no object or
\* array with it; an edit in place of a function (its fields, its ranges
\* array, a range's parameter or specifications) leaves every template as
\* it was: the one the function was created from, a built-in one of
\* getTemplate included, and one extracted from the function.
C28_NoSharedStructure ==
    [][/\ HeapStep("extractFunctionTemplate") =>
             /\ View(heap', fnRef) = View(heap, fnRef)
             /\ View(heap', tmplRef') = extractFunctionTemplate(View(heap, fnRef))
             /\ Reach(heap', tmplRef') \cap Reach(heap', fnRef) = {}
       /\ HeapStep("createFunctionFromTemplate") =>
             /\ View(heap', tmplRef) = View(heap, tmplRef)
             /\ extractFunctionTemplate(View(heap', fnRef')) = View(heap, tmplRef)
             /\ Reach(heap', fnRef') \cap TemplateCells(heap') = {}
       /\ HeapStep("edit") =>
             \A t \in templates : View(heap', t) = View(heap, t)]_vars

\* A function created from a built-in template was edited after a template
\* was extracted from it: the parameter of its range has the new limit,
\* the two templates have the old one.
C28_Witness ==
    /\ lastHeapOp = "edit"
    /\ heapOps = 4
    /\ fnRef # 0
    /\ tmplRef > Len(LibraryHeap)
    /\ View(heap, fnRef).ranges # <<>>
    /\ View(heap, fnRef).ranges[1].parameter.upperlimit = 7
    /\ View(heap, tmplRef).ranges[1].parameter.upperlimit = 100
    /\ View(heap, LibraryRef(1)).ranges[1].parameter.upperlimit = 100

====
